---- MODULE Spec2Model ----
(***************************************************************************)
(* Booking form of the education screenings: the store of the form, the    *)
(* confirmation page's handleSubmit, the seat availability check and the   *)
(* ordered creation of Organisation, Person, Aanmelding and screening      *)
(* links in bookingApi.submitBooking, against a record backend whose       *)
(* answers are nondeterministic.                                           *)
(***************************************************************************)
EXTENDS Integers, Sequences, FiniteSets, TLC

\* ------------------------------------------------------------------ bounds
\* The first record id the backend hands out: the ids of one submission
\* run from one decimal digit into two.
FirstId == 8
\* How many times handleSubmit is started in one behaviour (a first attempt
\* and retries from the confirmation page).
MaxAttempts == 1
\* How many groups the user fills in the page flow.
FlowGroups == 2

\* -------------------------------------------------------- program constants
MAX_GROUPS == 3
MAX_GROUP_SIZE == 340

\* ------------------------------------------------------- values and strings
\* A JavaScript value that may be null: <<>> is null, <<v>> is the value v.
Null == <<>>
Some(v) == <<v>>
IsNull(o) == o = <<>>
Val(o) == o[1]

\* A string that the code converts or searches is a sequence of one-character
\* strings; a backend message is a sequence of phrases.
DigitChars == <<"0", "1", "2", "3", "4", "5", "6", "7", "8", "9">>

IsDigit(c) == \E d \in 1..10 : DigitChars[d] = c

DigitValue(c) == (CHOOSE d \in 1..10 : DigitChars[d] = c) - 1

\* Number.prototype.toString / the backend's key of a record id.
RECURSIVE NumToString(_)
NumToString(n) ==
    IF n < 10 THEN <<DigitChars[n + 1]>>
    ELSE NumToString(n \div 10) \o <<DigitChars[(n % 10) + 1]>>

\* parseInt's NaN.
NaN == 0 - 1

RECURSIVE ParseDigits(_, _, _)
ParseDigits(s, i, acc) ==
    IF i > Len(s) \/ ~IsDigit(s[i]) THEN acc
    ELSE ParseDigits(s, i + 1, acc * 10 + DigitValue(s[i]))

\* parseInt(s): the leading decimal digits of s, NaN when there are none.
ParseInt(s) ==
    IF Len(s) = 0 \/ ~IsDigit(s[1]) THEN NaN ELSE ParseDigits(s, 1, 0)

\* String.prototype.includes on a message, phrase by phrase.
Includes(msg, phrase) == \E i \in DOMAIN msg : msg[i] = phrase

\* ------------------------------------------------------------ record classes
Organisation == "Organisation"
Person == "Person"
Aanmelding == "Aanmelding educatie"
Link == "Aanmelding educatie - Educatie screening"

\* --------------------------------------------------------- backend messages
UniquePhrase == "Geen unieke waarden voor de velden"

\* The messages a failing request carries (client.ts: the backend's
\* statusMessage, a network error, a response without key).
ErrorMessages ==
    { <<UniquePhrase, "Naam">>,
      <<UniquePhrase, "Subnaam">>,
      <<UniquePhrase, "Type">>,
      <<"Naam", "is verplicht">>,
      <<"No key returned from record creation">> }

\* The backend's duplicate-name signal: a uniqueness violation on the name or
\* the sub-name of the organisation.
DuplicateNameSignals ==
    { <<UniquePhrase, "Naam">>,
      <<UniquePhrase, "Subnaam">> }

\* The message of a rejection that no code reads.
Unread == <<>>

DuplicateSchoolMessage ==
    <<"Een school met deze naam bestaat al. Kies een andere naam of selecteer de bestaande school uit de lijst.">>

SchoolPrefix == "School kon niet worden aangemaakt: "
DocentPrefix == "Docent kon niet worden aangemaakt: "
AanmeldingPrefix == "Aanmelding kon niet worden aangemaakt: "

\* LinkMessage with the index of the array instead of the ordinal.
LinkMessageZeroBased(index, err) ==
    <<"Koppeling met filmvertoning ">> \o NumToString(index - 1) \o <<" mislukt: ">> \o err

LinkMessage(index, err) ==
    <<"Koppeling met filmvertoning ">> \o NumToString(index) \o <<" mislukt: ">> \o err

\* ------------------------------------------------------------------ results
NoResult == [state |-> "none"]

\* The capacity warnings of the confirmation page: the fetch of the screenings
\* is pending or not, and the warnings it gave.
NoWarnings == [ pending |-> FALSE, warnings |-> <<>> ]
Success(id) == [state |-> "Success", bookingId |-> id]
Failed(msg) == [state |-> "Failed", error |-> msg]

VARIABLES
    \* the store (bookingStore.ts)
    currentStep, groups, teacher, school, fields,
    \* the browser and the confirmation page
    route, isSubmitting, submitResult, capacityWarnings,
    \* one run of handleSubmit
    hsPc, formData, pendingQueries, screeningResults, availabilityCheck,
    \* one invocation of submitBooking
    pc, organisationId, personId, bookingId, linkStatus, result,
    \* the backend
    records, nextId, capacity, requests,
    \* what was observed: the requests, answers and returns in the order they
    \* happened, and the number of the running attempt
    log, attempt

storeVars == <<currentStep, groups, teacher, school, fields>>
pageVars == <<route, isSubmitting, submitResult, capacityWarnings>>
checkVars == <<pendingQueries, screeningResults, availabilityCheck>>
orchVars == <<pc, organisationId, personId, bookingId, linkStatus, result>>
backendVars == <<records, nextId, capacity, requests>>

vars == <<currentStep, groups, teacher, school, fields,
          route, isSubmitting, submitResult, capacityWarnings,
          hsPc, formData, pendingQueries, screeningResults, availabilityCheck,
          pc, organisationId, personId, bookingId, linkStatus, result,
          records, nextId, capacity, requests,
          log, attempt>>

\* ---------------------------------------------------------------- the store
initialGroup ==
    [ id |-> "group1",
      Aantal_leerlingen_studenten |-> 0,
      educationTypeIds |-> <<>>,
      educationTypeNames |-> <<>>,
      Toelichting |-> "",
      Aantal_begeleiders |-> 0,
      stad |-> "",
      selectedScreeningId |-> Null ]

initialTeacher ==
    [ First_name |-> "",
      Middle_name |-> "",
      Last_name |-> "",
      Email_work |-> <<>>,
      Mobile_phone |-> "",
      Newsletter_education |-> FALSE ]

initialSchool ==
    [ lookupId |-> Null,
      selectedSchoolName |-> "",
      School_staat_niet_in_lijst |-> FALSE,
      schoolName |-> "",
      schoolAdres |-> "",
      schoolType |-> Null,
      bekendFactuuradres |-> FALSE,
      existingFactuuradres |-> "",
      Factuuradres_keuze |-> "0",
      Factuuradres |-> "",
      Factuurreferentie |-> "",
      E_mailadres_voor_factuur |-> <<>> ]

initialFields ==
    [ Naam_tweede_contactpersoon |-> "",
      Betalen_met_CJP |-> FALSE,
      CJP_nummer |-> "",
      Opmerkingen |-> "",
      Akkoord_privacyverklaring |-> FALSE,
      Akkoord_algemene_voorwaarden |-> FALSE,
      Soort_aanmelding |-> "0",
      Status |-> "0" ]

\* { ...record, ...updates }: the fields of updates replace those of record.
Merge(record, updates) ==
    [ f \in DOMAIN record |->
        IF f \in DOMAIN updates THEN updates[f] ELSE record[f] ]

\* mboIskIds without the ISK type.
mboIskIdsWithoutIsk == {3, 14, 24}

\* Array.prototype.some / includes on the education type ids.
mboIskIds == {3, 14, 24, 29}

NeedsToelichting(group) ==
    \E i \in DOMAIN group.educationTypeIds :
        group.educationTypeIds[i] \in mboIskIds

\* GroupValid without the limit on the size of the group.
GroupValidWithoutLimit(group) ==
    /\ group.Aantal_leerlingen_studenten > 0
    /\ Len(group.educationTypeIds) > 0
    /\ group.Aantal_begeleiders > 0
    /\ group.stad # ""
    /\ ~IsNull(group.selectedScreeningId)
    /\ (~NeedsToelichting(group) \/ group.Toelichting # "")

GroupValid(group) ==
    LET hasBasicInfo ==
            /\ group.Aantal_leerlingen_studenten > 0
            /\ Len(group.educationTypeIds) > 0
            /\ group.Aantal_begeleiders > 0
            /\ group.stad # ""
            /\ ~IsNull(group.selectedScreeningId)
        hasRequiredToelichting ==
            ~NeedsToelichting(group) \/ group.Toelichting # ""
        totalPeople ==
            group.Aantal_leerlingen_studenten + group.Aantal_begeleiders
        withinLimit == totalPeople <= MAX_GROUP_SIZE
    IN  hasBasicInfo /\ hasRequiredToelichting /\ withinLimit

IsStep1ValidOf(gs) == \A i \in DOMAIN gs : GroupValid(gs[i])

isStep1Valid == IsStep1ValidOf(groups)

\* isValidEmail that asks for an @ only.
isValidEmailWithAt(email) == \E i \in DOMAIN email : email[i] = "@"

\* /^[^\s@]+@[^\s@]+\.[^\s@]+$/ : no blank and exactly one @, which has a
\* character before it and, after it, a dot with a character on either side.
isValidEmail(email) ==
    /\ \A k \in DOMAIN email : email[k] # " "
    /\ \E i \in DOMAIN email :
        /\ email[i] = "@"
        /\ \A k \in DOMAIN email : email[k] = "@" => k = i
        /\ i > 1
        /\ \E j \in DOMAIN email :
            /\ email[j] = "."
            /\ j > i + 1
            /\ j < Len(email)

IsStep2ValidOf(t, s, f) ==
    LET teacherValid ==
            /\ t.Last_name # ""
            /\ Len(t.Email_work) > 0
            /\ isValidEmail(t.Email_work)
            /\ t.Mobile_phone # ""
        invoiceEmailValid ==
            Len(s.E_mailadres_voor_factuur) = 0
                \/ isValidEmail(s.E_mailadres_voor_factuur)
        schoolValid ==
            \/ ~IsNull(s.lookupId)
            \/ /\ s.School_staat_niet_in_lijst
               /\ s.schoolName # ""
               /\ ~IsNull(s.schoolType)
        checkboxesValid ==
            f.Akkoord_algemene_voorwaarden /\ f.Akkoord_privacyverklaring
        cjpValid == ~f.Betalen_met_CJP \/ f.CJP_nummer # ""
    IN  teacherValid /\ schoolValid /\ checkboxesValid /\ cjpValid
            /\ invoiceEmailValid

isStep2Valid == IsStep2ValidOf(teacher, school, fields)

\* x || null on a string.
OrNull(str) == IF str = "" THEN Null ELSE Some(str)

preparePersonData ==
    LET schoolName ==
            IF school.School_staat_niet_in_lijst THEN school.schoolName
            ELSE school.selectedSchoolName
    IN  [ First_name |-> teacher.First_name,
          Middle_name |-> OrNull(teacher.Middle_name),
          Last_name |-> teacher.Last_name,
          Email_work |-> teacher.Email_work,
          Mobile_phone |-> teacher.Mobile_phone,
          Newsletter_education_ |-> teacher.Newsletter_education,
          AVG |-> fields.Akkoord_privacyverklaring,
          Type |-> 56,
          Other_school |-> schoolName ]

\* !school.schoolType holds for null and for 0.
prepareOrganisationData ==
    IF ~school.School_staat_niet_in_lijst
        \/ IsNull(school.schoolType) \/ Val(school.schoolType) = 0
    THEN Null
    ELSE Some([ Name |-> school.schoolName, Type |-> <<Val(school.schoolType)>> ])

\* String.prototype.trim of `${schoolName}\n${schoolAdres}`: the line break
\* stays only between two non-blank parts.
SchoolInvul(name, adres) ==
    IF name = "" THEN adres
    ELSE IF adres = "" THEN name
    ELSE name \o "\n" \o adres

\* prepareAanmeldingData that sends the billing address text whatever the
\* source is.
prepareAanmeldingDataWithAddress ==
    [ Naam_contactpersoon |->
          teacher.First_name
              \o (IF teacher.Middle_name # "" THEN " " \o teacher.Middle_name ELSE "")
              \o " " \o teacher.Last_name,
      E_mailadres |-> teacher.Email_work,
      Telefoonnummer |-> teacher.Mobile_phone,
      School |-> school.lookupId,
      School_staat_niet_in_lijst |-> school.School_staat_niet_in_lijst,
      School_invul |->
          IF school.School_staat_niet_in_lijst
          THEN Some(SchoolInvul(school.schoolName, school.schoolAdres))
          ELSE Null,
      Factuuradres_keuze |-> school.Factuuradres_keuze,
      Factuuradres |-> Some(school.Factuuradres),
      Factuurreferentie |-> OrNull(school.Factuurreferentie),
      E_mailadres_voor_factuur |->
          IF Len(school.E_mailadres_voor_factuur) = 0 THEN Null
          ELSE Some(school.E_mailadres_voor_factuur),
      Naam_tweede_contactpersoon |-> OrNull(fields.Naam_tweede_contactpersoon),
      Betalen_met_CJP |-> fields.Betalen_met_CJP,
      CJP_nummer |->
          IF fields.Betalen_met_CJP THEN Some(fields.CJP_nummer) ELSE Null,
      Opmerkingen |-> OrNull(fields.Opmerkingen),
      Akkoord_algemene_voorwaarden |-> fields.Akkoord_algemene_voorwaarden,
      Soort_aanmelding |-> fields.Soort_aanmelding,
      Status |-> fields.Status,
      Docent |-> Null ]

prepareAanmeldingData ==
    [ Naam_contactpersoon |->
          teacher.First_name
              \o (IF teacher.Middle_name # "" THEN " " \o teacher.Middle_name ELSE "")
              \o " " \o teacher.Last_name,
      E_mailadres |-> teacher.Email_work,
      Telefoonnummer |-> teacher.Mobile_phone,
      School |-> school.lookupId,
      School_staat_niet_in_lijst |-> school.School_staat_niet_in_lijst,
      School_invul |->
          IF school.School_staat_niet_in_lijst
          THEN Some(SchoolInvul(school.schoolName, school.schoolAdres))
          ELSE Null,
      Factuuradres_keuze |-> school.Factuuradres_keuze,
      Factuuradres |->
          IF school.Factuuradres_keuze = "1" THEN Some(school.Factuuradres)
          ELSE Null,
      Factuurreferentie |-> OrNull(school.Factuurreferentie),
      E_mailadres_voor_factuur |->
          IF Len(school.E_mailadres_voor_factuur) = 0 THEN Null
          ELSE Some(school.E_mailadres_voor_factuur),
      Naam_tweede_contactpersoon |-> OrNull(fields.Naam_tweede_contactpersoon),
      Betalen_met_CJP |-> fields.Betalen_met_CJP,
      CJP_nummer |->
          IF fields.Betalen_met_CJP THEN Some(fields.CJP_nummer) ELSE Null,
      Opmerkingen |-> OrNull(fields.Opmerkingen),
      Akkoord_algemene_voorwaarden |-> fields.Akkoord_algemene_voorwaarden,
      Soort_aanmelding |-> fields.Soort_aanmelding,
      Status |-> fields.Status,
      Docent |-> Null ]

\* -------------------------------------------------------------- the backend
\* The events of the log. A create request on the wire is its call event.
CreateCall(class, index, data) ==
    [ kind |-> "call", inv |-> attempt, class |-> class, index |-> index,
      data |-> data ]

Created(req, key) ==
    [ kind |-> "created", inv |-> req.inv, class |-> req.class,
      index |-> req.index, key |-> key ]

Rejected(req, err) ==
    [ kind |-> "rejected", inv |-> req.inv, class |-> req.class,
      index |-> req.index, err |-> err ]

Returned(res) == [ kind |-> "return", inv |-> attempt, result |-> res ]

CallsIn(events) ==
    { events[i] : i \in { j \in DOMAIN events : events[j].kind = "call" } }

\* apiClient.createRecord up to its first await puts the request on the wire.
Issue(events) ==
    /\ requests' = requests \cup CallsIn(events)
    /\ log' = log \o events

\* The request whose answer has arrived leaves the wire; the requests issued
\* by the same step join it.
Answer(req, events) ==
    /\ requests' = (requests \ {req}) \cup CallsIn(events)
    /\ log' = log \o events

\* The backend stores the record of a request and answers with its key.
Store(req) ==
    /\ records' = records \cup
          { [ class |-> req.class, id |-> nextId, inv |-> req.inv,
              index |-> req.index, data |-> req.data ] }
    /\ nextId' = nextId + 1

NewKey == NumToString(nextId)

\* ------------------------------------------------------------ submitBooking
\* Return without the finally block of handleSubmit.
ReturnWithoutFinally(res) ==
    /\ result' = res
    /\ pc' = "done"
    /\ submitResult' = res
    /\ isSubmitting' = isSubmitting
    /\ hsPc' = "idle"

\* submitBooking returns res to handleSubmit, which shows it and ends the
\* submission (setSubmitResult, then setIsSubmitting(false) in finally).
Return(res) ==
    /\ result' = res
    /\ pc' = "done"
    /\ submitResult' = res
    /\ isSubmitting' = FALSE
    /\ hsPc' = "idle"

\* OrganisationFailure with the field test left out: every uniqueness
\* violation is taken for a duplicate school name.
OrganisationFailureAnyUnique(err) ==
    IF Includes(err, UniquePhrase)
    THEN DuplicateSchoolMessage
    ELSE <<SchoolPrefix>> \o err

\* The message thrown when the Organisation request fails.
OrganisationFailure(err) ==
    IF Includes(err, UniquePhrase)
        /\ (Includes(err, "Naam") \/ Includes(err, "Subnaam"))
    THEN DuplicateSchoolMessage
    ELSE <<SchoolPrefix>> \o err

PersonFailure(err) == <<DocentPrefix>> \o err

\* AanmeldingFailure without the backend's message.
AanmeldingFailureBare(err) == <<AanmeldingPrefix>>

AanmeldingFailure(err) == <<AanmeldingPrefix>> \o err

\* aanmeldingDataWithRefs that keeps the School of the form.
aanmeldingDataWithFormSchool(fd, person, orgId) ==
    [ fd.aanmeldingData EXCEPT !.Docent = Some(ParseInt(person)) ]

aanmeldingDataWithRefs(fd, person, orgId) ==
    [ fd.aanmeldingData EXCEPT
        !.Docent = Some(ParseInt(person)),
        !.School = orgId ]

linkData(booking, group) ==
    [ Aanmelding_educatie |-> ParseInt(booking),
      Screening |->
          IF IsNull(group.selectedScreeningId) THEN NaN
          ELSE ParseInt(Val(group.selectedScreeningId)),
      Aantal_leerlingen_studenten |-> group.Aantal_leerlingen_studenten,
      Aantal_begeleiders |-> group.Aantal_begeleiders,
      Onderwijssoorten |-> group.educationTypeIds,
      Toelichting |-> OrNull(group.Toelichting) ]

\* The call of submitBooking with its groups.
Invoked(fd) == [ kind |-> "invoke", inv |-> attempt, groups |-> fd.groups ]

linkingPromises(fd, booking) ==
    [ i \in 1..Len(fd.groups) |-> CreateCall(Link, i, linkData(booking, fd.groups[i])) ]

\* FirstCall that remembers the Organisation an earlier invocation made.
FirstCallRemembering(fd) ==
    IF ~IsNull(fd.organisationData)
          /\ ~\E r \in records : r.class = Organisation
    THEN CreateCall(Organisation, 0, Val(fd.organisationData))
    ELSE CreateCall(Person, 0, fd.personData)

\* submitBooking from its call to its first await: the Organisation request
\* when a new school is to be made, else the Person request.
FirstCall(fd) ==
    IF ~IsNull(fd.organisationData)
    THEN CreateCall(Organisation, 0, Val(fd.organisationData))
    ELSE CreateCall(Person, 0, fd.personData)

\* Invoke with the Organisation request not awaited: the Person request goes
\* out with it.
InvokeUnawaited(fd, before) ==
    /\ organisationId' = fd.aanmeldingData.School
    /\ personId' = <<>>
    /\ bookingId' = <<>>
    /\ linkStatus' = <<>>
    /\ result' = NoResult
    /\ pc' = "person"
    /\ Issue(before \o <<Invoked(fd)>>
             \o (IF ~IsNull(fd.organisationData)
                 THEN <<CreateCall(Organisation, 0, Val(fd.organisationData))>>
                 ELSE <<>>)
             \o <<CreateCall(Person, 0, fd.personData)>>)

Invoke(fd, before) ==
    /\ organisationId' = fd.aanmeldingData.School
    /\ personId' = <<>>
    /\ bookingId' = <<>>
    /\ linkStatus' = <<>>
    /\ result' = NoResult
    /\ pc' = IF ~IsNull(fd.organisationData) THEN "org" ELSE "person"
    /\ Issue(before \o <<Invoked(fd), FirstCall(fd)>>)

\* Step 1 succeeded: the Person request follows.
OrganisationCreated ==
    /\ pc = "org"
    /\ \E req \in requests :
        /\ req.inv = attempt /\ req.class = Organisation
        /\ Store(req)
        /\ organisationId' = Some(ParseInt(NewKey))
        /\ pc' = "person"
        /\ Answer(req, <<Created(req, NewKey),
                         CreateCall(Person, 0, formData.personData)>>)
    /\ UNCHANGED <<storeVars, pageVars, hsPc, formData, checkVars,
                   personId, bookingId, linkStatus, result, capacity, attempt>>

\* OrganisationRejected with the error swallowed: the Person request follows.
OrganisationRejectedContinues ==
    /\ pc = "org"
    /\ \E req \in requests, err \in ErrorMessages :
        /\ req.inv = attempt /\ req.class = Organisation
        /\ pc' = "person"
        /\ Answer(req, <<Rejected(req, err),
                         CreateCall(Person, 0, formData.personData)>>)
    /\ UNCHANGED <<storeVars, pageVars, hsPc, formData, checkVars,
                   organisationId, personId, bookingId, linkStatus, result,
                   records, nextId, capacity, attempt>>

\* Step 1 failed: submitBooking returns the failure.
OrganisationRejected ==
    /\ pc = "org"
    /\ \E req \in requests, err \in ErrorMessages :
        /\ req.inv = attempt /\ req.class = Organisation
        /\ Answer(req, <<Rejected(req, err),
                         Returned(Failed(OrganisationFailure(err)))>>)
        /\ Return(Failed(OrganisationFailure(err)))
    /\ UNCHANGED <<storeVars, route, capacityWarnings, formData, checkVars,
                   organisationId, personId, bookingId, linkStatus,
                   records, nextId, capacity, attempt>>

\* Step 2 succeeded: the Aanmelding request follows, with both references.
PersonCreated ==
    /\ pc = "person"
    /\ \E req \in requests :
        /\ req.inv = attempt /\ req.class = Person
        /\ Store(req)
        /\ personId' = NewKey
        /\ pc' = "booking"
        /\ Answer(req, <<Created(req, NewKey),
                         CreateCall(Aanmelding, 0,
                            aanmeldingDataWithRefs(formData, NewKey, organisationId))>>)
    /\ UNCHANGED <<storeVars, pageVars, hsPc, formData, checkVars,
                   organisationId, bookingId, linkStatus, result, capacity,
                   attempt>>

PersonRejected ==
    /\ pc = "person"
    /\ \E req \in requests, err \in ErrorMessages :
        /\ req.inv = attempt /\ req.class = Person
        /\ Answer(req, <<Rejected(req, err),
                         Returned(Failed(PersonFailure(err)))>>)
        /\ Return(Failed(PersonFailure(err)))
    /\ UNCHANGED <<storeVars, route, capacityWarnings, formData, checkVars,
                   organisationId, personId, bookingId, linkStatus,
                   records, nextId, capacity, attempt>>

\* Step 3 succeeded: every link request is issued before the next await.
AanmeldingCreated ==
    /\ pc = "booking"
    /\ \E req \in requests :
        /\ req.inv = attempt /\ req.class = Aanmelding
        /\ Store(req)
        /\ bookingId' = NewKey
        /\ linkStatus' = [ i \in 1..Len(formData.groups) |-> "pending" ]
        /\ IF Len(formData.groups) = 0
           THEN /\ Answer(req, <<Created(req, NewKey), Returned(Success(NewKey))>>)
                /\ Return(Success(NewKey))
           ELSE /\ Answer(req, <<Created(req, NewKey)>>
                                   \o linkingPromises(formData, NewKey))
                /\ pc' = "links"
                /\ UNCHANGED <<result, submitResult, isSubmitting, hsPc>>
    /\ UNCHANGED <<storeVars, route, capacityWarnings, formData, checkVars,
                   organisationId, personId, capacity, attempt>>

\* AanmeldingRejected with a compensating delete of the records the
\* invocation made.
AanmeldingRejectedCompensates ==
    /\ pc = "booking"
    /\ \E req \in requests, err \in ErrorMessages :
        /\ req.inv = attempt /\ req.class = Aanmelding
        /\ Answer(req, <<Rejected(req, err),
                         Returned(Failed(AanmeldingFailure(err)))>>)
        /\ Return(Failed(AanmeldingFailure(err)))
        /\ records' = { r \in records : r.inv # attempt }
    /\ UNCHANGED <<storeVars, route, capacityWarnings, formData, checkVars,
                   organisationId, personId, bookingId, linkStatus,
                   nextId, capacity, attempt>>

AanmeldingRejected ==
    /\ pc = "booking"
    /\ \E req \in requests, err \in ErrorMessages :
        /\ req.inv = attempt /\ req.class = Aanmelding
        /\ Answer(req, <<Rejected(req, err),
                         Returned(Failed(AanmeldingFailure(err)))>>)
        /\ Return(Failed(AanmeldingFailure(err)))
    /\ UNCHANGED <<storeVars, route, capacityWarnings, formData, checkVars,
                   organisationId, personId, bookingId, linkStatus,
                   records, nextId, capacity, attempt>>

\* Promise.all is still waiting for the link requests of this invocation.
Awaited(req) == req.inv = attempt /\ pc = "links"

\* A link request succeeds. Promise.all resolves with the last of them; a
\* request that outlives its Promise.all (another link was rejected first)
\* still makes its record.
LinkCreated ==
    \E req \in requests :
        /\ req.class = Link
        /\ Store(req)
        /\ IF Awaited(req)
           THEN LET status == [ linkStatus EXCEPT ![req.index] = "ok" ]
                IN  /\ linkStatus' = status
                    /\ IF \A i \in DOMAIN status : status[i] = "ok"
                       THEN /\ Answer(req, <<Created(req, NewKey),
                                             Returned(Success(bookingId))>>)
                            /\ Return(Success(bookingId))
                       ELSE /\ Answer(req, <<Created(req, NewKey)>>)
                            /\ UNCHANGED <<pc, result, submitResult,
                                           isSubmitting, hsPc>>
           ELSE /\ Answer(req, <<Created(req, NewKey)>>)
                /\ UNCHANGED <<pc, result, submitResult, isSubmitting, hsPc,
                               linkStatus>>
        /\ UNCHANGED <<storeVars, route, capacityWarnings, formData, checkVars,
                       organisationId, personId, bookingId, capacity, attempt>>

\* LinkRejected under Promise.allSettled: a failed link counts as settled.
LinkRejectedSettles ==
    \E req \in requests :
        /\ req.class = Link
        /\ IF Awaited(req)
           THEN \E err \in ErrorMessages :
                LET status == [ linkStatus EXCEPT ![req.index] = "ok" ]
                IN  /\ linkStatus' = status
                    /\ IF \A i \in DOMAIN status : status[i] = "ok"
                       THEN /\ Answer(req, <<Rejected(req, err),
                                             Returned(Success(bookingId))>>)
                            /\ Return(Success(bookingId))
                       ELSE /\ Answer(req, <<Rejected(req, err)>>)
                            /\ UNCHANGED <<pc, result, submitResult,
                                           isSubmitting, hsPc>>
           ELSE /\ Answer(req, <<Rejected(req, Unread)>>)
                /\ UNCHANGED <<pc, result, submitResult, isSubmitting, hsPc,
                               linkStatus>>
        /\ UNCHANGED <<storeVars, route, capacityWarnings, formData, checkVars,
                       organisationId, personId, bookingId,
                       records, nextId, capacity, attempt>>

\* A link request fails. The first rejection settles Promise.all and ends
\* the invocation; a later one, which nothing awaits any more, is dropped
\* with its message unread.
LinkRejected ==
    \E req \in requests :
        /\ req.class = Link
        /\ IF Awaited(req)
           THEN \E err \in ErrorMessages :
                /\ linkStatus' = [ linkStatus EXCEPT ![req.index] = "failed" ]
                /\ Answer(req, <<Rejected(req, err),
                                 Returned(Failed(LinkMessage(req.index, err)))>>)
                /\ Return(Failed(LinkMessage(req.index, err)))
           ELSE /\ Answer(req, <<Rejected(req, Unread)>>)
                /\ UNCHANGED <<pc, result, submitResult, isSubmitting, hsPc,
                               linkStatus>>
        /\ UNCHANGED <<storeVars, route, capacityWarnings, formData, checkVars,
                       organisationId, personId, bookingId,
                       records, nextId, capacity, attempt>>

\* ---------------------------------------------------- checkSeatAvailability
\* The screenings of the backend and the seats a screening has left for
\* education (Beschikbare_plekken_educatie): null, or a number.
ScreeningIds == {7, 12}

getTotalPeopleInGroup(group) ==
    group.Aantal_leerlingen_studenten + group.Aantal_begeleiders

\* The argument handleSubmit passes to checkSeatAvailability.
CheckInput(gs) ==
    [ i \in DOMAIN gs |->
        [ selectedScreeningId |-> gs[i].selectedScreeningId,
          totalPeople |-> getTotalPeopleInGroup(gs[i]) ] ]

\* uniqueScreeningIds with only the first group's screening.
firstScreeningId(input) == { input[1].selectedScreeningId }

\* [...new Set(screeningIds)]
uniqueScreeningIds(input) ==
    { input[i].selectedScreeningId : i \in DOMAIN input }

\* parseInt(id) in the query's filter; parseInt(null) is NaN.
FilterValue(id) == IF IsNull(id) THEN NaN ELSE ParseInt(Val(id))

\* The backend's answer to the query of one screening: the Screening records
\* whose Id equals the filter value, with the seats they have at that moment.
QueryResult(id) ==
    IF FilterValue(id) \in DOMAIN capacity
    THEN { [ id |-> FilterValue(id),
             Beschikbare_plekken_educatie |-> capacity[FilterValue(id)] ] }
    ELSE {}

\* s.id.toString() === group.selectedScreeningId
Matches(s, group) == Some(NumToString(s.id)) = group.selectedScreeningId

\* GroupConflict with "at most" for "less than": a group that fills the
\* screening exactly is a conflict.
GroupConflictAtCapacity(group, screenings) ==
    IF \E s \in screenings :
          /\ Matches(s, group)
          /\ ~IsNull(s.Beschikbare_plekken_educatie)
          /\ Val(s.Beschikbare_plekken_educatie) <= group.totalPeople
    THEN LET screening == CHOOSE s \in screenings : Matches(s, group)
         IN  <<[ screeningId |-> Val(group.selectedScreeningId),
                 available |-> Val(screening.Beschikbare_plekken_educatie),
                 requested |-> group.totalPeople ]>>
    ELSE <<>>

\* The body of groups.forEach: the conflict of one group, if it has one.
GroupConflict(group, screenings) ==
    IF \E s \in screenings :
          /\ Matches(s, group)
          /\ ~IsNull(s.Beschikbare_plekken_educatie)
          /\ Val(s.Beschikbare_plekken_educatie) < group.totalPeople
    THEN LET screening == CHOOSE s \in screenings : Matches(s, group)
         IN  <<[ screeningId |-> Val(group.selectedScreeningId),
                 available |-> Val(screening.Beschikbare_plekken_educatie),
                 requested |-> group.totalPeople ]>>
    ELSE <<>>

RECURSIVE Conflicts(_, _)
Conflicts(input, screenings) ==
    IF input = <<>> THEN <<>>
    ELSE GroupConflict(Head(input), screenings)
            \o Conflicts(Tail(input), screenings)

\* What checkSeatAvailability returns when every query was answered.
CheckResult(input, screenings) ==
    [ available |-> Len(Conflicts(input, screenings)) = 0,
      conflicts |-> Conflicts(input, screenings) ]

\* CheckFailed that lets the submission through.
CheckFailedOpen == [ available |-> TRUE, conflicts |-> <<>> ]

\* What it returns from its catch block.
CheckFailed == [ available |-> FALSE, conflicts |-> <<>> ]

\* The events of a check.
Queried(id, answer) ==
    [ kind |-> "query", inv |-> attempt, id |-> id, screenings |-> answer ]

QueryFailed(id) == [ kind |-> "queryFailed", inv |-> attempt, id |-> id ]

Checked(check) == [ kind |-> "checked", inv |-> attempt, check |-> check ]

\* handleSubmit's message for a check that is not available.
RECURSIVE ConflictLines(_)
ConflictLines(conflicts) ==
    IF conflicts = <<>> THEN <<>>
    ELSE <<"Vertoning ID ">> \o Head(conflicts).screeningId
            \o <<" Beschikbaar: ">> \o NumToString(Head(conflicts).available)
            \o <<", Aangevraagd: ">> \o NumToString(Head(conflicts).requested)
            \o ConflictLines(Tail(conflicts))

SeatsMessage(conflicts) ==
    <<"Er zijn niet genoeg plaatsen beschikbaar voor de volgende vertoning(en):">>
        \o ConflictLines(conflicts)
        \o <<"Pas uw aanmelding aan en probeer opnieuw.">>

\* handleSubmit after the check with the check's verdict left unread.
HandleSubmitIgnoresCheck(check, seen) ==
    /\ Invoke(formData, seen \o <<Checked(check)>>)
    /\ hsPc' = "submitting"
    /\ UNCHANGED <<isSubmitting, submitResult>>

\* handleSubmit from the answer of the check to its next await or its end:
\* blocked with a failed result, or on to submitBooking.
HandleSubmitContinues(check, seen) ==
    IF check.available
    THEN /\ Invoke(formData, seen \o <<Checked(check)>>)
         /\ hsPc' = "submitting"
         /\ UNCHANGED <<isSubmitting, submitResult>>
    ELSE /\ result' = Failed(SeatsMessage(check.conflicts))
         /\ submitResult' = Failed(SeatsMessage(check.conflicts))
         /\ isSubmitting' = FALSE
         /\ hsPc' = "idle"
         /\ log' = log \o seen \o
                        <<Checked(check),
                          Returned(Failed(SeatsMessage(check.conflicts)))>>
         /\ UNCHANGED <<pc, organisationId, personId, bookingId, linkStatus,
                        requests>>

\* checkSeatAvailability returns check to its caller, after the answers seen.
CheckReturns(check, seen) ==
    /\ availabilityCheck' = check
    /\ IF hsPc = "checking"
       THEN HandleSubmitContinues(check, seen)
       ELSE /\ hsPc' = "checked"
            /\ log' = log \o seen \o <<Checked(check)>>
            /\ UNCHANGED <<orchVars, requests, isSubmitting, submitResult>>

\* The last query is answered: Promise.all resolves and the groups are
\* compared; an earlier answer is kept until then.
QueryResolved ==
    \E id \in pendingQueries :
        /\ pendingQueries' = pendingQueries \ {id}
        /\ screeningResults' = screeningResults \cup QueryResult(id)
        /\ IF pendingQueries' = {}
           THEN /\ CheckReturns(CheckResult(CheckInput(formData.groups),
                                            screeningResults'),
                                <<Queried(id, QueryResult(id))>>)
           ELSE /\ log' = log \o <<Queried(id, QueryResult(id))>>
                /\ UNCHANGED <<availabilityCheck, hsPc, orchVars, requests,
                               isSubmitting, submitResult>>
        /\ UNCHANGED <<storeVars, route, capacityWarnings, formData,
                       records, nextId, capacity, attempt>>

\* A query fails: Promise.all rejects, the catch block answers.
QueryRejected ==
    \E id \in pendingQueries :
        /\ pendingQueries' = {}
        /\ screeningResults' = screeningResults
        /\ CheckReturns(CheckFailed, <<QueryFailed(id)>>)
        /\ UNCHANGED <<storeVars, route, capacityWarnings, formData,
                       records, nextId, capacity, attempt>>

\* ------------------------------------------- submitBooking on its own inputs
sampleGroup ==
    [ initialGroup EXCEPT
        !.Aantal_leerlingen_studenten = 30,
        !.educationTypeIds = <<1>>,
        !.educationTypeNames = <<"havo/vwo">>,
        !.Aantal_begeleiders = 5,
        !.stad = "Amsterdam",
        !.selectedScreeningId = Some(<<"7">>) ]

SampleGroups ==
    { sampleGroup,
      [ sampleGroup EXCEPT !.selectedScreeningId = Some(<<"1", "2">>),
                           !.educationTypeIds = <<3>>,
                           !.Toelichting = "stage" ] }

samplePersonData ==
    [ First_name |-> "An", Middle_name |-> Null, Last_name |-> "Smit",
      Email_work |-> <<"a", "@", "b", ".", "c">>, Mobile_phone |-> "06",
      Newsletter_education_ |-> FALSE, AVG |-> TRUE, Type |-> 56,
      Other_school |-> "School" ]

sampleAanmeldingData ==
    [ Naam_contactpersoon |-> "An Smit",
      E_mailadres |-> <<"a", "@", "b", ".", "c">>,
      Telefoonnummer |-> "06",
      School |-> Null,
      School_staat_niet_in_lijst |-> FALSE,
      School_invul |-> Null,
      Factuuradres_keuze |-> "0",
      Factuuradres |-> Null,
      Factuurreferentie |-> Null,
      E_mailadres_voor_factuur |-> Null,
      Naam_tweede_contactpersoon |-> Null,
      Betalen_met_CJP |-> FALSE,
      CJP_nummer |-> Null,
      Opmerkingen |-> Null,
      Akkoord_algemene_voorwaarden |-> TRUE,
      Soort_aanmelding |-> "0",
      Status |-> "0",
      Docent |-> Null ]

\* The arguments submitBooking is called with: with and without a new
\* organisation, with and without an existing school, one to three groups.
SubmitInputs ==
    { [ personData |-> samplePersonData,
        organisationData |-> org,
        aanmeldingData |-> [ sampleAanmeldingData EXCEPT !.School = lookup ],
        groups |-> gs ] :
        org \in { Null, Some([ Name |-> "Nieuwe school", Type |-> <<19>> ]) },
        lookup \in { Null, Some(5) },
        gs \in UNION { [ 1..n -> SampleGroups ] : n \in 1..MAX_GROUPS } }

noFormData ==
    [ personData |-> samplePersonData, organisationData |-> Null,
      aanmeldingData |-> sampleAanmeldingData, groups |-> <<>> ]

InitSubmit ==
    /\ currentStep = 2
    /\ groups = <<initialGroup>>
    /\ teacher = initialTeacher
    /\ school = initialSchool
    /\ fields = initialFields
    /\ route = "bevestiging"
    /\ isSubmitting = TRUE
    /\ submitResult = NoResult
    /\ capacityWarnings = NoWarnings
    /\ hsPc = "submitting"
    /\ formData \in SubmitInputs
    /\ pendingQueries = {}
    /\ screeningResults = {}
    /\ availabilityCheck = [ available |-> TRUE, conflicts |-> <<>> ]
    /\ pc = "start"
    /\ organisationId = Null
    /\ personId = <<>>
    /\ bookingId = <<>>
    /\ linkStatus = <<>>
    /\ result = NoResult
    /\ records = {}
    /\ nextId = FirstId
    /\ capacity = [ id \in ScreeningIds |-> Null ]
    /\ requests = {}
    /\ log = <<>>
    /\ attempt = 1

\* The call of submitBooking.
SubmitBookingCalled ==
    /\ pc = "start"
    /\ Invoke(formData, <<>>)
    /\ UNCHANGED <<storeVars, pageVars, hsPc, formData, checkVars,
                   records, nextId, capacity, attempt>>

NextSubmit ==
    \/ SubmitBookingCalled
    \/ OrganisationCreated
    \/ OrganisationRejected
    \/ PersonCreated
    \/ PersonRejected
    \/ AanmeldingCreated
    \/ AanmeldingRejected
    \/ LinkCreated
    \/ LinkRejected

SpecSubmit == InitSubmit /\ [][NextSubmit]_vars

\* ----------------------------------- checkSeatAvailability on its own inputs
\* Groups of 50 and of 110 people on either screening, against screenings
\* with no limit, 50 or 110 seats.
CheckGroups ==
    { [ sampleGroup EXCEPT !.Aantal_leerlingen_studenten = n,
                           !.Aantal_begeleiders = 10,
                           !.selectedScreeningId = Some(id) ] :
        n \in { 40, 100 }, id \in { <<"7">>, <<"1", "2">> } }

CheckCapacities == { Null, Some(50), Some(110) }

InitCheck ==
    /\ currentStep = 2
    /\ groups = <<initialGroup>>
    /\ teacher = initialTeacher
    /\ school = initialSchool
    /\ fields = initialFields
    /\ route = "bevestiging"
    /\ isSubmitting = FALSE
    /\ submitResult = NoResult
    /\ capacityWarnings = NoWarnings
    /\ hsPc = "idle"
    /\ \E gs \in UNION { [ 1..n -> CheckGroups ] : n \in 1..MAX_GROUPS } :
          formData = [ noFormData EXCEPT !.groups = gs ]
    /\ pendingQueries = {}
    /\ screeningResults = {}
    /\ availabilityCheck = [ available |-> TRUE, conflicts |-> <<>> ]
    /\ pc = "start"
    /\ organisationId = Null
    /\ personId = <<>>
    /\ bookingId = <<>>
    /\ linkStatus = <<>>
    /\ result = NoResult
    /\ records = {}
    /\ nextId = FirstId
    /\ capacity \in [ ScreeningIds -> CheckCapacities ]
    /\ requests = {}
    /\ log = <<>>
    /\ attempt = 1

\* checkSeatAvailability is called and sends one query per distinct screening.
checkSeatAvailabilityCalled ==
    /\ hsPc = "idle"
    /\ log = <<>>
    /\ hsPc' = "direct"
    /\ pendingQueries' = uniqueScreeningIds(CheckInput(formData.groups))
    /\ screeningResults' = {}
    /\ UNCHANGED <<storeVars, pageVars, formData, availabilityCheck, orchVars,
                   backendVars, log, attempt>>

NextCheck ==
    \/ checkSeatAvailabilityCalled
    \/ QueryResolved
    \/ QueryRejected

SpecCheck == InitCheck /\ [][NextCheck]_vars

\* ---------------------------------------------------------------- the pages
Routes == { "stap-1", "stap-2", "bevestiging" }

\* The seats a screening has in the page flow: no limit, or 50.
Capacities == { Null, Some(50) }

\* The route guards of App: /stap-2 and /bevestiging render from step 2 on
\* and redirect to /stap-1 before it.
Landing(path, step) ==
    IF path = "stap-1" \/ step >= 2 THEN path ELSE "stap-1"

HasScreening(gs) == \E i \in DOMAIN gs : ~IsNull(gs[i].selectedScreeningId)

\* The page shown after a handler or a navigation, given the new store: the
\* confirmation page keeps its state while it stays mounted and starts with
\* fresh state, fetching the screenings of the groups, when it is mounted.
Show(path, fresh) ==
    /\ route' = Landing(path, currentStep')
    /\ IF route' = "bevestiging" /\ route = "bevestiging" /\ ~fresh
       THEN UNCHANGED <<isSubmitting, submitResult, capacityWarnings>>
       ELSE /\ isSubmitting' = FALSE
            /\ submitResult' = NoResult
            /\ capacityWarnings' =
                  IF route' = "bevestiging"
                  THEN [ pending |-> HasScreening(groups'), warnings |-> <<>> ]
                  ELSE NoWarnings

\* The user edits and navigates between submissions, as long as a submission
\* is left to make.
Editable == hsPc = "idle" /\ attempt < MaxAttempts

runVars == <<hsPc, formData, pendingQueries, screeningResults,
             availabilityCheck, pc, organisationId, personId, bookingId,
             linkStatus, result>>

\* The backend changes the seats of a screening; submitBooking does not read
\* them.
CapacityChanged ==
    /\ hsPc = "checking" \/ Editable
    /\ \E id \in ScreeningIds, seats \in Capacities :
        /\ capacity[id] # seats
        /\ capacity' = [ capacity EXCEPT ![id] = seats ]
    /\ UNCHANGED <<storeVars, pageVars, runVars, records, nextId, requests,
                   log, attempt>>

\* ------------------------------------------------ loadScreeningDetails
RECURSIVE WarningsFor(_, _, _, _)
WarningsFor(gs, screeningId, seats, k) ==
    IF k > Len(gs) THEN <<>>
    ELSE (IF gs[k].selectedScreeningId = screeningId
                /\ seats < getTotalPeopleInGroup(gs[k])
          THEN <<[ group |-> k, available |-> seats,
                   requested |-> getTotalPeopleInGroup(gs[k]) ]>>
          ELSE <<>>)
            \o WarningsFor(gs, screeningId, seats, k + 1)

RECURSIVE LoadedWarnings(_, _, _)
LoadedWarnings(gs, seats, i) ==
    IF i > Len(gs) THEN <<>>
    ELSE (IF /\ ~IsNull(gs[i].selectedScreeningId)
             /\ FilterValue(gs[i].selectedScreeningId) \in DOMAIN seats
             /\ ~IsNull(seats[FilterValue(gs[i].selectedScreeningId)])
          THEN WarningsFor(gs, gs[i].selectedScreeningId,
                           Val(seats[FilterValue(gs[i].selectedScreeningId)]), 1)
          ELSE <<>>)
            \o LoadedWarnings(gs, seats, i + 1)

\* The fetch of loadScreeningDetails is answered (between submissions: an
\* answer during one shows after it).
ScreeningDetailsLoaded ==
    /\ hsPc = "idle"
    /\ route = "bevestiging"
    /\ capacityWarnings.pending
    /\ capacityWarnings' =
          [ pending |-> FALSE, warnings |-> LoadedWarnings(groups, capacity, 1) ]
    /\ UNCHANGED <<storeVars, route, isSubmitting, submitResult, runVars,
                   backendVars, log, attempt>>

ScreeningDetailsFailed ==
    /\ hsPc = "idle"
    /\ route = "bevestiging"
    /\ capacityWarnings.pending
    /\ capacityWarnings' = [ capacityWarnings EXCEPT !.pending = FALSE ]
    /\ UNCHANGED <<storeVars, route, isSubmitting, submitResult, runVars,
                   backendVars, log, attempt>>

\* -------------------------------------------------------- the store actions
\* goToNextStep without the validation of step 1.
goToNextStepUnguarded == IF currentStep = 1 THEN 2 ELSE currentStep

goToNextStep == IF currentStep = 1 /\ isStep1Valid THEN 2 ELSE currentStep

goToPreviousStep == IF currentStep = 2 THEN 1 ELSE currentStep

\* `group${Date.now()}`: an id no group of the form has.
NewGroupIds == <<"group2", "group3", "group4">>

NewGroupId ==
    NewGroupIds[CHOOSE k \in DOMAIN NewGroupIds :
        /\ \A i \in DOMAIN groups : groups[i].id # NewGroupIds[k]
        /\ \A j \in 1..(k - 1) :
              \E i \in DOMAIN groups : groups[i].id = NewGroupIds[j]]

addGroup ==
    IF Len(groups) < MAX_GROUPS
    THEN Append(groups, [ initialGroup EXCEPT !.id = NewGroupId ])
    ELSE groups

updateGroup(groupId, updates) ==
    [ i \in DOMAIN groups |->
        IF groups[i].id = groupId THEN Merge(groups[i], updates)
        ELSE groups[i] ]

updateTeacher(updates) == Merge(teacher, updates)

updateSchool(updates) == Merge(school, updates)

updateField(field, value) == [ fields EXCEPT ![field] = value ]

resetForm ==
    /\ currentStep' = 1
    /\ groups' = <<initialGroup>>
    /\ teacher' = initialTeacher
    /\ school' = initialSchool
    /\ fields' = initialFields

\* ------------------------------------------------------- what the user enters
GroupUpdates ==
    { [ Aantal_leerlingen_studenten |-> 100,
        Aantal_begeleiders |-> 10,
        educationTypeIds |-> <<1>>,
        educationTypeNames |-> <<"havo/vwo">>,
        stad |-> "Amsterdam",
        selectedScreeningId |-> Some(<<"7">>) ] }
    \cup { [ selectedScreeningId |-> Some(<<"1", "2">>) ] }

TeacherUpdates ==
    { [ First_name |-> "Anna", Last_name |-> "Jansen",
        Email_work |-> <<"a", "@", "b", ".", "n", "l">>,
        Mobile_phone |-> "0612345678" ],
      [ Email_work |-> <<>> ] }

SchoolOptions == { Some([ id |-> 5, Name |-> "Het Lyceum" ]) }

SchoolUpdates ==
    { [ schoolName |-> "Nieuwe school", schoolType |-> Some(19) ] }

FieldNames == { "Akkoord_privacyverklaring", "Akkoord_algemene_voorwaarden" }

\* --------------------------------------------------------- Step1FilmChoice
HandleAddGroup ==
    /\ Editable
    /\ route = "stap-1"
    /\ Len(groups) < MAX_GROUPS
    /\ Len(groups) < FlowGroups
    /\ groups' = addGroup
    /\ UNCHANGED <<currentStep, teacher, school, fields, pageVars, runVars,
                   backendVars, log, attempt>>

GroupUpdated ==
    /\ Editable
    /\ route = "stap-1"
    /\ \E i \in DOMAIN groups, updates \in GroupUpdates :
          groups' = updateGroup(groups[i].id, updates)
    /\ UNCHANGED <<currentStep, teacher, school, fields, pageVars, runVars,
                   backendVars, log, attempt>>

\* hasCapacityIssues over the screenings the page has loaded.
hasCapacityIssues(allScreenings) ==
    \E i \in DOMAIN groups :
        /\ ~IsNull(groups[i].selectedScreeningId)
        /\ FilterValue(groups[i].selectedScreeningId) \in DOMAIN allScreenings
        /\ ~IsNull(allScreenings[FilterValue(groups[i].selectedScreeningId)])
        /\ Val(allScreenings[FilterValue(groups[i].selectedScreeningId)])
              < getTotalPeopleInGroup(groups[i])

\* handleNext, with the screenings as the page loaded them at some earlier
\* moment.
HandleNext ==
    /\ Editable
    /\ route = "stap-1"
    /\ isStep1Valid
    /\ \E allScreenings \in [ ScreeningIds -> Capacities ] :
          ~hasCapacityIssues(allScreenings)
    /\ currentStep' = goToNextStep
    /\ UNCHANGED <<groups, teacher, school, fields>>
    /\ Show("stap-2", FALSE)
    /\ UNCHANGED <<runVars, backendVars, log, attempt>>

\* handleReset of the three pages, the dialog confirmed.
HandleReset ==
    /\ Editable
    /\ ~isSubmitting
    /\ submitResult = NoResult
    /\ resetForm
    /\ Show("stap-1", FALSE)
    /\ UNCHANGED <<runVars, backendVars, log, attempt>>

\* ------------------------------------------------------ Step2ContactDetails
TeacherUpdated ==
    /\ Editable
    /\ route = "stap-2"
    /\ \E updates \in TeacherUpdates : teacher' = updateTeacher(updates)
    /\ UNCHANGED <<currentStep, groups, school, fields, pageVars, runVars,
                   backendVars, log, attempt>>

handleSchoolSelect(selectedOption) ==
    IF ~IsNull(selectedOption)
    THEN updateSchool([ lookupId |-> Some(Val(selectedOption).id),
                        selectedSchoolName |-> Val(selectedOption).Name,
                        School_staat_niet_in_lijst |-> FALSE ])
    ELSE updateSchool([ lookupId |-> Null,
                        selectedSchoolName |-> "",
                        School_staat_niet_in_lijst |-> FALSE,
                        bekendFactuuradres |-> FALSE,
                        existingFactuuradres |-> "",
                        Factuuradres_keuze |-> "0",
                        Factuuradres |-> "",
                        Factuurreferentie |-> "",
                        E_mailadres_voor_factuur |-> <<>> ])

handleManualSchoolToggle(checked) ==
    IF checked
    THEN updateSchool([ lookupId |-> Null,
                        selectedSchoolName |-> "",
                        School_staat_niet_in_lijst |-> TRUE,
                        schoolName |-> "",
                        schoolAdres |-> "",
                        schoolType |-> Null,
                        bekendFactuuradres |-> FALSE,
                        existingFactuuradres |-> "",
                        Factuuradres_keuze |-> "1" ])
    ELSE updateSchool([ School_staat_niet_in_lijst |-> FALSE,
                        schoolName |-> "",
                        schoolAdres |-> "",
                        schoolType |-> Null,
                        Factuuradres_keuze |-> "0" ])

\* The school select is disabled while the school is entered by hand.
SchoolSelected ==
    /\ Editable
    /\ route = "stap-2"
    /\ ~school.School_staat_niet_in_lijst
    /\ \E selectedOption \in SchoolOptions :
          school' = handleSchoolSelect(selectedOption)
    /\ UNCHANGED <<currentStep, groups, teacher, fields, pageVars, runVars,
                   backendVars, log, attempt>>

ManualSchoolToggled ==
    /\ Editable
    /\ route = "stap-2"
    /\ school' = handleManualSchoolToggle(~school.School_staat_niet_in_lijst)
    /\ UNCHANGED <<currentStep, groups, teacher, fields, pageVars, runVars,
                   backendVars, log, attempt>>

\* The name and type of a school entered by hand.
SchoolUpdated ==
    /\ Editable
    /\ route = "stap-2"
    /\ school.School_staat_niet_in_lijst
    /\ \E updates \in SchoolUpdates : school' = updateSchool(updates)
    /\ UNCHANGED <<currentStep, groups, teacher, fields, pageVars, runVars,
                   backendVars, log, attempt>>

FieldUpdated ==
    /\ Editable
    /\ route = "stap-2"
    /\ \E field \in FieldNames :
          fields' = updateField(field, ~fields[field])
    /\ UNCHANGED <<currentStep, groups, teacher, school, pageVars, runVars,
                   backendVars, log, attempt>>

\* handleSubmit of step 2.
Step2HandleSubmit ==
    /\ Editable
    /\ route = "stap-2"
    /\ isStep2Valid
    /\ UNCHANGED storeVars
    /\ Show("bevestiging", FALSE)
    /\ UNCHANGED <<runVars, backendVars, log, attempt>>

\* "Vorige stap".
PreviousStepClicked ==
    /\ Editable
    /\ route = "stap-2"
    /\ currentStep' = goToPreviousStep
    /\ UNCHANGED <<groups, teacher, school, fields>>
    /\ Show(route, FALSE)
    /\ UNCHANGED <<runVars, backendVars, log, attempt>>

\* ------------------------------------------------------------- Confirmation
\* "Terug naar filmkeuze" / "Terug naar contactgegevens".
BackClicked ==
    /\ Editable
    /\ route = "bevestiging"
    /\ ~isSubmitting
    /\ submitResult = NoResult
    /\ currentStep' = IF Len(capacityWarnings.warnings) > 0 THEN 1 ELSE 2
    /\ UNCHANGED <<groups, teacher, school, fields>>
    /\ Show(route, FALSE)
    /\ UNCHANGED <<runVars, backendVars, log, attempt>>

\* handleSubmit up to its first await: the data of the submission is taken
\* from the store and the availability check sends its queries.
HandleSubmitWithin(limit) ==
    /\ route = "bevestiging"
    /\ ~isSubmitting
    /\ submitResult = NoResult
    /\ Len(capacityWarnings.warnings) = 0
    /\ hsPc = "idle"
    /\ attempt < limit
    /\ isSubmitting' = TRUE
    /\ submitResult' = NoResult
    /\ attempt' = attempt + 1
    /\ formData' = [ personData |-> preparePersonData,
                     organisationData |-> prepareOrganisationData,
                     aanmeldingData |-> prepareAanmeldingData,
                     groups |-> groups ]
    /\ pendingQueries' = uniqueScreeningIds(CheckInput(groups))
    /\ screeningResults' = {}
    /\ hsPc' = "checking"
    /\ log' = log \o <<[ kind |-> "submit", inv |-> attempt + 1 ]>>
    /\ UNCHANGED <<storeVars, route, capacityWarnings, availabilityCheck,
                   orchVars, records, nextId, capacity, requests>>

HandleSubmit == HandleSubmitWithin(MaxAttempts)

\* "Terug naar contactgegevens" of the failure view.
ErrorBackClicked ==
    /\ route = "bevestiging"
    /\ submitResult.state = "Failed"
    /\ currentStep' = 2
    /\ UNCHANGED <<groups, teacher, school, fields>>
    /\ Show(route, FALSE)
    /\ UNCHANGED <<runVars, backendVars, log, attempt>>

\* "Opnieuw proberen".
RetryClicked ==
    /\ route = "bevestiging"
    /\ submitResult.state = "Failed"
    /\ submitResult' = NoResult
    /\ UNCHANGED <<storeVars, route, isSubmitting, capacityWarnings, runVars,
                   backendVars, log, attempt>>

\* "Nieuwe aanmelding starten" of the success view.
NewBookingClicked ==
    /\ route = "bevestiging"
    /\ submitResult.state = "Success"
    /\ resetForm
    /\ Show(route, FALSE)
    /\ UNCHANGED <<runVars, backendVars, log, attempt>>

\* ------------------------------------------------------------- the browser
\* The user opens a path of the form (address bar, history, reload): the
\* persisted store is kept, the page is mounted anew.
BrowserNavigate(path) ==
    /\ Editable
    /\ UNCHANGED storeVars
    /\ Show(path, TRUE)
    /\ UNCHANGED <<runVars, backendVars, log, attempt>>

Init ==
    /\ currentStep = 1
    /\ groups = <<initialGroup>>
    /\ teacher = initialTeacher
    /\ school = initialSchool
    /\ fields = initialFields
    /\ route = "stap-1"
    /\ isSubmitting = FALSE
    /\ submitResult = NoResult
    /\ capacityWarnings = NoWarnings
    /\ hsPc = "idle"
    /\ formData = noFormData
    /\ pendingQueries = {}
    /\ screeningResults = {}
    /\ availabilityCheck = [ available |-> TRUE, conflicts |-> <<>> ]
    /\ pc = "start"
    /\ organisationId = Null
    /\ personId = <<>>
    /\ bookingId = <<>>
    /\ linkStatus = <<>>
    /\ result = NoResult
    /\ records = {}
    /\ nextId = FirstId
    /\ capacity \in [ ScreeningIds -> Capacities ]
    /\ requests = {}
    /\ log = <<>>
    /\ attempt = 0

Next ==
    \/ HandleAddGroup
    \/ GroupUpdated
    \/ HandleNext
    \/ HandleReset
    \/ TeacherUpdated
    \/ SchoolSelected
    \/ ManualSchoolToggled
    \/ SchoolUpdated
    \/ FieldUpdated
    \/ Step2HandleSubmit
    \/ PreviousStepClicked
    \/ BackClicked
    \/ HandleSubmit
    \/ ErrorBackClicked
    \/ RetryClicked
    \/ NewBookingClicked
    \/ \E path \in Routes : BrowserNavigate(path)
    \/ ScreeningDetailsLoaded
    \/ ScreeningDetailsFailed
    \/ CapacityChanged
    \/ QueryResolved
    \/ QueryRejected
    \/ OrganisationCreated
    \/ OrganisationRejected
    \/ PersonCreated
    \/ PersonRejected
    \/ AanmeldingCreated
    \/ AanmeldingRejected
    \/ LinkCreated
    \/ LinkRejected

Spec == Init /\ [][Next]_vars

\* ------------------------------------------ the store's step 1 on its own inputs
\* Student counts around 1 and around the cap, supervisor counts from 0,
\* no category, an unrestricted one and each restricted one, an empty, a
\* blank and a worded justification.
Step1Students == { 0, 1, 339, 340 }
Step1Supervisors == { 0, 1, 2 }
Step1Types == { <<>>, <<1>>, <<3>>, <<14>>, <<24>>, <<1, 29>> }
Step1Texts == { "", " ", "stage" }

Step1Groups(id) ==
    { [ id |-> id,
        Aantal_leerlingen_studenten |-> students,
        educationTypeIds |-> types,
        educationTypeNames |-> <<>>,
        Toelichting |-> text,
        Aantal_begeleiders |-> supervisors,
        stad |-> stad,
        selectedScreeningId |-> screening ] :
        students \in Step1Students, supervisors \in Step1Supervisors,
        types \in Step1Types, text \in Step1Texts,
        stad \in { "", "Amsterdam" }, screening \in { Null, Some(<<"7">>) } }

\* The group next to it: a valid one, one over the cap, one of a restricted
\* category without justification, one without supervisors.
Step1Neighbours(id) ==
    { [ sampleGroup EXCEPT !.id = id ],
      [ sampleGroup EXCEPT !.id = id, !.Aantal_leerlingen_studenten = 340 ],
      [ sampleGroup EXCEPT !.id = id, !.educationTypeIds = <<29>> ],
      [ sampleGroup EXCEPT !.id = id, !.Aantal_begeleiders = 0 ] }

Step1Inputs ==
    { <<g>> : g \in Step1Groups("group1") }
        \cup { <<g, h>> : g \in Step1Groups("group1"), h \in Step1Neighbours("group2") }
        \cup { <<h, g>> : h \in Step1Neighbours("group1"), g \in Step1Groups("group2") }

InitStep1 ==
    /\ currentStep \in { 1, 2 }
    /\ groups \in Step1Inputs
    /\ teacher = initialTeacher
    /\ school = initialSchool
    /\ fields = initialFields
    /\ route = (IF currentStep = 1 THEN "stap-1" ELSE "stap-2")
    /\ isSubmitting = FALSE
    /\ submitResult = NoResult
    /\ capacityWarnings = NoWarnings
    /\ hsPc = "idle"
    /\ formData = noFormData
    /\ pendingQueries = {}
    /\ screeningResults = {}
    /\ availabilityCheck = [ available |-> TRUE, conflicts |-> <<>> ]
    /\ pc = "start"
    /\ organisationId = Null
    /\ personId = <<>>
    /\ bookingId = <<>>
    /\ linkStatus = <<>>
    /\ result = NoResult
    /\ records = {}
    /\ nextId = FirstId
    /\ capacity = [ id \in ScreeningIds |-> Null ]
    /\ requests = {}
    /\ log = <<>>
    /\ attempt = 0

\* String.prototype.trim of a justification leaves nothing: of the texts
\* entered here, those made of white space only.
TrimIsEmpty(value) == value \in { "", " " }

\* The total check of validateField: its message replaces the one of the field.
TotalError(group, field, value, error) ==
    LET students == IF field = "Aantal_leerlingen_studenten" THEN value
                    ELSE group.Aantal_leerlingen_studenten
        supervisors == IF field = "Aantal_begeleiders" THEN value
                       ELSE group.Aantal_begeleiders
        total == students + supervisors
    IN IF /\ field \in { "Aantal_leerlingen_studenten", "Aantal_begeleiders" }
          /\ total > MAX_GROUP_SIZE
       THEN <<"Totaal aantal personen (">> \o NumToString(total)
               \o <<") mag niet meer dan ">> \o NumToString(MAX_GROUP_SIZE)
               \o <<" zijn">>
       ELSE error

\* validateField that takes supervisors from zero.
validateFieldFromZero(group, field, value) ==
    TotalError(group, field, value,
        CASE field = "Aantal_leerlingen_studenten" ->
                IF value < 1
                THEN <<"Aantal leerlingen moet minimaal 1 zijn">>
                ELSE IF value > MAX_GROUP_SIZE
                THEN <<"Maximum ">> \o NumToString(MAX_GROUP_SIZE)
                        \o <<" leerlingen per groep">>
                ELSE <<>>
          [] field = "educationTypeIds" ->
                IF Len(value) = 0
                THEN <<"Selecteer minimaal één onderwijstype">>
                ELSE <<>>
          [] field = "Toelichting" ->
                IF NeedsToelichting(group) /\ TrimIsEmpty(value)
                THEN <<"Toelichting is verplicht voor MBO en ISK">>
                ELSE <<>>
          [] field = "Aantal_begeleiders" ->
                IF value < 0
                THEN <<"Aantal begeleiders moet minimaal 1 zijn">>
                ELSE IF value > MAX_GROUP_SIZE
                THEN <<"Maximum ">> \o NumToString(MAX_GROUP_SIZE)
                        \o <<" begeleiders per groep">>
                ELSE <<>>
          [] field = "stad" ->
                IF value = "" THEN <<"Selecteer een stad">> ELSE <<>>
          [] field = "selectedScreeningId" ->
                IF IsNull(value) \/ value = Some(<<>>)
                THEN <<"Selecteer een screening">>
                ELSE <<>>)

\* validateField of a group form: the message of the field ('' when it is
\* fine), the one setFieldErrors stores under the field.
validateField(group, field, value) ==
    TotalError(group, field, value,
        CASE field = "Aantal_leerlingen_studenten" ->
                IF value < 1
                THEN <<"Aantal leerlingen moet minimaal 1 zijn">>
                ELSE IF value > MAX_GROUP_SIZE
                THEN <<"Maximum ">> \o NumToString(MAX_GROUP_SIZE)
                        \o <<" leerlingen per groep">>
                ELSE <<>>
          [] field = "educationTypeIds" ->
                IF Len(value) = 0
                THEN <<"Selecteer minimaal één onderwijstype">>
                ELSE <<>>
          [] field = "Toelichting" ->
                IF NeedsToelichting(group) /\ TrimIsEmpty(value)
                THEN <<"Toelichting is verplicht voor MBO en ISK">>
                ELSE <<>>
          [] field = "Aantal_begeleiders" ->
                IF value < 1
                THEN <<"Aantal begeleiders moet minimaal 1 zijn">>
                ELSE IF value > MAX_GROUP_SIZE
                THEN <<"Maximum ">> \o NumToString(MAX_GROUP_SIZE)
                        \o <<" begeleiders per groep">>
                ELSE <<>>
          [] field = "stad" ->
                IF value = "" THEN <<"Selecteer een stad">> ELSE <<>>
          [] field = "selectedScreeningId" ->
                IF IsNull(value) \/ value = Some(<<>>)
                THEN <<"Selecteer een screening">>
                ELSE <<>>)

\* The fields the listener of validateAllGroups validates in a group form.
ValidatedFields(group) ==
    { "Aantal_leerlingen_studenten", "educationTypeIds", "Aantal_begeleiders",
      "stad", "selectedScreeningId" }
        \cup (IF NeedsToelichting(group) THEN { "Toelichting" } ELSE {})

\* handleValidateAll of a group form: fieldErrors after the listener ran on
\* the errors the form showed before.
handleValidateAll(group, fieldErrors) ==
    [ f \in DOMAIN fieldErrors \cup ValidatedFields(group) |->
        IF f \in ValidatedFields(group)
        THEN validateField(group, f, group[f])
        ELSE fieldErrors[f] ]

\* No group form shows an error.
NoFieldErrors == [ i \in DOMAIN groups |-> <<>> ]

\* handleNext of the step 1 page on the screenings the group forms reported
\* to it: it moves on, or it broadcasts validateAllGroups to the group forms,
\* which showed no error before.
HandleNextCalled ==
    /\ log = <<>>
    /\ route = "stap-1"
    /\ \E allScreenings \in [ ScreeningIds -> Capacities ] :
        LET basicValidation == isStep1Valid
            capacityValid == ~hasCapacityIssues(allScreenings)
        IN /\ UNCHANGED <<groups, teacher, school, fields>>
           /\ IF basicValidation /\ capacityValid
              THEN /\ currentStep' = goToNextStep
                   /\ Show("stap-2", FALSE)
                   /\ log' = <<[ kind |-> "handleNext",
                                 allScreenings |-> allScreenings,
                                 fieldErrors |-> NoFieldErrors ]>>
              ELSE /\ UNCHANGED <<currentStep, pageVars>>
                   /\ log' = <<[ kind |-> "handleNext",
                                 allScreenings |-> allScreenings,
                                 fieldErrors |->
                                     [ i \in DOMAIN groups |->
                                         handleValidateAll(groups[i], <<>>) ] ]>>
    /\ UNCHANGED <<runVars, backendVars, attempt>>

\* A call of goToNextStep: set({ currentStep: 2 }) or nothing.
GoToNextStepCalled ==
    /\ log = <<>>
    /\ currentStep' = goToNextStep
    /\ log' = <<[ kind |-> "goToNextStep" ]>>
    /\ UNCHANGED <<groups, teacher, school, fields, pageVars, runVars,
                   backendVars, attempt>>

\* A call of goToPreviousStep: set({ currentStep: 1 }) or nothing.
GoToPreviousStepCalled ==
    /\ log = <<>>
    /\ currentStep' = goToPreviousStep
    /\ log' = <<[ kind |-> "goToPreviousStep" ]>>
    /\ UNCHANGED <<groups, teacher, school, fields, pageVars, runVars,
                   backendVars, attempt>>

\* The justification of a group is typed over: updateGroup(id, { Toelichting }).
ToelichtingEntered ==
    /\ log = <<>>
    /\ \E i \in DOMAIN groups, text \in Step1Texts :
        /\ groups' = updateGroup(groups[i].id, [ Toelichting |-> text ])
        /\ log' = <<[ kind |-> "updateGroup", group |-> i, text |-> text,
                       was |-> groups[i].Toelichting ]>>
    /\ UNCHANGED <<currentStep, teacher, school, fields, pageVars, runVars,
                   backendVars, attempt>>

NextStep1 ==
    \/ GoToNextStepCalled
    \/ GoToPreviousStepCalled
    \/ ToelichtingEntered
    \/ HandleNextCalled

SpecStep1 == InitStep1 /\ [][NextStep1]_vars

\* ------------------------------------------ the store's step 2 on its own inputs
\* Addresses: none, a well-formed one, one without a dot after the @, one
\* with nothing before the @.
Step2Emails ==
    { <<>>,
      <<"a", "@", "b", ".", "c">>,
      <<"a", "@", "b">>,
      <<"@", "b", ".", "c">> }

Step2Teachers ==
    { [ initialTeacher EXCEPT !.Last_name = last, !.Email_work = email,
                              !.Mobile_phone = phone ] :
        last \in { "", "Jansen" }, email \in Step2Emails,
        phone \in { "", "0612345678" } }

\* The school as the step 2 form leaves it: none chosen, an existing school
\* chosen (its billing address known or not), or a school entered by hand
\* (which clears the choice and sets the billing address source to '1').
Step2Schools ==
    { [ initialSchool EXCEPT !.Factuuradres_keuze = keuze,
                             !.Factuuradres = adres,
                             !.E_mailadres_voor_factuur = email ] :
        keuze \in { "0", "1" }, adres \in { "", "Straat 1" },
        email \in Step2Emails \ { <<"@", "b", ".", "c">> } }
    \cup
    { [ initialSchool EXCEPT !.lookupId = Some(5),
                             !.selectedSchoolName = "Het Lyceum",
                             !.bekendFactuuradres = bekend,
                             !.existingFactuuradres =
                                 (IF bekend THEN "Laan 2" ELSE ""),
                             !.Factuuradres_keuze = keuze,
                             !.Factuuradres = adres,
                             !.E_mailadres_voor_factuur = email ] :
        bekend \in BOOLEAN, keuze \in { "0", "1" },
        adres \in { "", "Straat 1" },
        email \in Step2Emails \ { <<"@", "b", ".", "c">> } }
    \cup
    { [ initialSchool EXCEPT !.School_staat_niet_in_lijst = TRUE,
                             !.schoolName = name,
                             !.schoolType = type,
                             !.Factuuradres_keuze = "1",
                             !.Factuuradres = adres,
                             !.E_mailadres_voor_factuur = email ] :
        name \in { "", "Nieuwe school" }, type \in { Null, Some(19) },
        adres \in { "", "Straat 1" },
        email \in Step2Emails \ { <<"@", "b", ".", "c">> } }

Step2Fields ==
    { [ initialFields EXCEPT !.Betalen_met_CJP = cjp,
                             !.CJP_nummer = nummer,
                             !.Akkoord_privacyverklaring = privacy,
                             !.Akkoord_algemene_voorwaarden = voorwaarden ] :
        cjp \in BOOLEAN, nummer \in { "", "123" },
        privacy \in BOOLEAN, voorwaarden \in BOOLEAN }

InitStep2 ==
    /\ currentStep = 2
    /\ groups = <<sampleGroup>>
    /\ teacher \in Step2Teachers
    /\ school \in Step2Schools
    /\ fields \in Step2Fields
    /\ route = "stap-2"
    /\ isSubmitting = FALSE
    /\ submitResult = NoResult
    /\ capacityWarnings = NoWarnings
    /\ hsPc = "idle"
    /\ formData = noFormData
    /\ pendingQueries = {}
    /\ screeningResults = {}
    /\ availabilityCheck = [ available |-> TRUE, conflicts |-> <<>> ]
    /\ pc = "start"
    /\ organisationId = Null
    /\ personId = <<>>
    /\ bookingId = <<>>
    /\ linkStatus = <<>>
    /\ result = NoResult
    /\ records = {}
    /\ nextId = FirstId
    /\ capacity = [ id \in ScreeningIds |-> Null ]
    /\ requests = {}
    /\ log = <<>>
    /\ attempt = 0

\* A radio button of the billing address source; "0" is disabled for a school
\* entered by hand or without a known billing address, "1" for a school
\* entered by hand.
FactuuradresKeuzeChanged ==
    /\ Editable
    /\ route = "stap-2"
    /\ ~school.School_staat_niet_in_lijst
    /\ \E keuze \in { "0", "1" } :
        /\ keuze = "0" => school.bekendFactuuradres
        /\ keuze # school.Factuuradres_keuze
        /\ school' = updateSchool([ Factuuradres_keuze |-> keuze ])
    /\ UNCHANGED <<currentStep, groups, teacher, fields, pageVars, runVars,
                   backendVars, log, attempt>>

\* The billing address text area, shown for source "1", a school entered by
\* hand, or a chosen school without a known billing address.
FactuuradresEntered ==
    /\ Editable
    /\ route = "stap-2"
    /\ \/ school.Factuuradres_keuze = "1"
       \/ school.School_staat_niet_in_lijst
       \/ ~school.bekendFactuuradres /\ ~IsNull(school.lookupId)
    /\ \E adres \in { "", "Straat 1" } :
        /\ adres # school.Factuuradres
        /\ school' = updateSchool([ Factuuradres |-> adres ])
    /\ UNCHANGED <<currentStep, groups, teacher, fields, pageVars, runVars,
                   backendVars, log, attempt>>

NextStep2 ==
    \/ Step2HandleSubmit
    \/ FactuuradresKeuzeChanged
    \/ FactuuradresEntered

SpecStep2 == InitStep2 /\ [][NextStep2]_vars

\* ------------------------------------------------------- reading the log
IsCall(e, class) == e.kind = "call" /\ e.class = class
IsCreated(e, class) == e.kind = "created" /\ e.class = class
IsRejected(e, class) == e.kind = "rejected" /\ e.class = class

\* The events of invocation a that follow position i.
Later(i, a) == { j \in DOMAIN log : j > i /\ log[j].inv = a }
Earlier(i, a) == { j \in DOMAIN log : j < i /\ log[j].inv = a }

CallsOf(a, class) == { j \in DOMAIN log : log[j].inv = a /\ IsCall(log[j], class) }
ReturnsOf(a) == { j \in DOMAIN log : log[j].inv = a /\ log[j].kind = "return" }

RecordsOf(a, class) == { r \in records : r.inv = a /\ r.class = class }

\* C1: when the Organisation request of an invocation fails, no Person,
\* Aanmelding or link request is issued afterwards in that invocation (nothing
\* of it is on the wire) and the invocation ends in Failed.
C1_FailFastOrganisation ==
    \A i \in DOMAIN log :
        IsRejected(log[i], Organisation) =>
            /\ \A j \in Later(i, log[i].inv) :
                /\ log[j].kind = "return"
                /\ log[j].result.state = "Failed"
            /\ ReturnsOf(log[i].inv) # {}
            /\ \A c \in { Person, Aanmelding, Link } : CallsOf(log[i].inv, c) = {}
            /\ \A req \in requests : req.inv # log[i].inv
            /\ log[i].inv = attempt => pc = "done" /\ result.state = "Failed"

C1_Witness ==
    /\ pc = "done"
    /\ ~IsNull(formData.organisationData)
    /\ \E i \in DOMAIN log : IsRejected(log[i], Organisation)

C3_TerminalResult ==
    pc = "done" =>
        /\ result.state \in { "Success", "Failed" }
        /\ Cardinality(ReturnsOf(attempt)) = 1
        /\ \A j \in ReturnsOf(attempt) : log[j].result = result
        /\ result.state = "Success" =>
            /\ ~IsNull(formData.organisationData) =>
                  RecordsOf(attempt, Organisation) # {}
            /\ RecordsOf(attempt, Person) # {}
            /\ \E b \in RecordsOf(attempt, Aanmelding) :
                  result.bookingId = NumToString(b.id)
            /\ \A g \in DOMAIN formData.groups :
                  Cardinality({ r \in RecordsOf(attempt, Link) : r.index = g }) = 1
            /\ Cardinality(RecordsOf(attempt, Link)) = Len(formData.groups)
        /\ \A j \in ReturnsOf(attempt) :
              (\E i \in Earlier(j, attempt) : log[i].kind = "rejected")
                  => result.state = "Failed"

C3_Witness ==
    /\ pc = "done"
    /\ result.state = "Success"
    /\ Len(formData.groups) = MAX_GROUPS
    /\ ~IsNull(formData.organisationData)

\* C8: after a failed Person request no Aanmelding and no link request is
\* issued in the invocation, after a failed Aanmelding request no link
\* request; the invocation returns Failed with the name of the failing step
\* (Docent, Aanmelding) followed by the backend's message.
C8_FailFastPersonAanmelding ==
    \A i \in DOMAIN log :
        /\ IsRejected(log[i], Person) =>
            /\ \A c \in { Aanmelding, Link } : CallsOf(log[i].inv, c) = {}
            /\ i + 1 \in DOMAIN log
            /\ log[i + 1] = [ kind |-> "return", inv |-> log[i].inv,
                              result |-> Failed(<<DocentPrefix>> \o log[i].err) ]
        /\ IsRejected(log[i], Aanmelding) =>
            /\ CallsOf(log[i].inv, Link) = {}
            /\ i + 1 \in DOMAIN log
            /\ log[i + 1] = [ kind |-> "return", inv |-> log[i].inv,
                              result |-> Failed(<<AanmeldingPrefix>> \o log[i].err) ]

C8_Witness ==
    /\ pc = "done"
    /\ \E i \in DOMAIN log : IsRejected(log[i], Aanmelding)
    /\ RecordsOf(attempt, Person) # {}

\* C9: no record is deleted: in every state, the terminal ones included, each
\* record whose create request was answered with a key is in the backend.
C9_NoCompensation ==
    \A i \in DOMAIN log :
        log[i].kind = "created" =>
            \E r \in records :
                /\ r.class = log[i].class
                /\ r.inv = log[i].inv
                /\ r.index = log[i].index
                /\ NumToString(r.id) = log[i].key

\* A Failed result beside an Organisation and a Person no Aanmelding refers to.
C9_Witness ==
    /\ pc = "done"
    /\ result.state = "Failed"
    /\ RecordsOf(attempt, Organisation) # {}
    /\ RecordsOf(attempt, Person) # {}
    /\ RecordsOf(attempt, Aanmelding) = {}

\* C10: a failed Organisation request that carries the duplicate-name signal
\* gives Failed with the duplicate-school message and no Person request; one
\* that carries any other message gives Failed with the school-creation
\* prefix and that message, never the duplicate-school message.
C10_DuplicateSchool ==
    \A i \in DOMAIN log :
        IsRejected(log[i], Organisation) =>
            /\ i + 1 \in DOMAIN log
            /\ log[i + 1].kind = "return"
            /\ log[i].err \in DuplicateNameSignals =>
                /\ log[i + 1].result = Failed(DuplicateSchoolMessage)
                /\ CallsOf(log[i].inv, Person) = {}
            /\ log[i].err \notin DuplicateNameSignals =>
                /\ log[i + 1].result = Failed(<<SchoolPrefix>> \o log[i].err)
                /\ log[i + 1].result # Failed(DuplicateSchoolMessage)

C10_Witness ==
    /\ pc = "done"
    /\ \E i \in DOMAIN log :
        /\ IsRejected(log[i], Organisation)
        /\ log[i].err = <<UniquePhrase, "Type">>

\* C4: when the availability check of an attempt reports available = false,
\* submitBooking is not invoked in that attempt, no create request is issued
\* and no record is created for it, and the attempt ends with a Failed result.
C4_BlockedWhenUnavailable ==
    \A i \in DOMAIN log :
        (log[i].kind = "checked" /\ ~log[i].check.available) =>
            /\ \A j \in DOMAIN log :
                  log[j].inv = log[i].inv => log[j].kind \notin { "invoke", "call" }
            /\ \A r \in records : r.inv # log[i].inv
            /\ \A req \in requests : req.inv # log[i].inv
            /\ i + 1 \in DOMAIN log
            /\ log[i + 1].kind = "return"
            /\ log[i + 1].inv = log[i].inv
            /\ log[i + 1].result.state = "Failed"
            /\ log[i].inv = attempt => (result.state = "Failed" /\ hsPc = "idle")

C4_Witness ==
    /\ submitResult.state = "Failed"
    /\ isStep1Valid /\ isStep2Valid
    /\ Len(formData.groups) = 2
    /\ \E i \in DOMAIN log :
        /\ log[i].kind = "checked"
        /\ Len(log[i].check.conflicts) = 1

\* The groups of an invocation fit the seats the backend reported for their
\* screenings in the answers given.
FitsFigures(gs, figures) ==
    \A g \in DOMAIN gs : \A s \in figures :
        (/\ Some(NumToString(s.id)) = gs[g].selectedScreeningId
         /\ ~IsNull(s.Beschikbare_plekken_educatie))
            => getTotalPeopleInGroup(gs[g]) <= Val(s.Beschikbare_plekken_educatie)

\* The call of submitBooking at position j of the log follows, in its own
\* attempt, a check that is available, made on answers the backend gave
\* after the attempt began, one for every distinct screening of the groups.
PrecededByFreshCheck(j) ==
    LET a == log[j].inv
        gs == log[j].groups
    IN  /\ j > 1
        /\ log[j - 1].kind = "checked"
        /\ log[j - 1].inv = a
        /\ log[j - 1].check.available
        /\ \E c \in Earlier(j, a) :
            /\ log[c].kind = "submit"
            /\ LET answers == { q \in Earlier(j, a) : q > c /\ log[q].kind = "query" }
               IN  /\ { log[q].id : q \in answers }
                        = { gs[g].selectedScreeningId : g \in DOMAIN gs }
                   /\ FitsFigures(gs, UNION { log[q].screenings : q \in answers })
            /\ \A q \in Earlier(j, a) : q > c => log[q].kind # "queryFailed"

\* C5: every call of submitBooking is preceded in the same run of
\* handleSubmit by an availability check that asked the backend, after the
\* run began, for every distinct screening of the groups and found them
\* available on those answers; and the step that calls submitBooking and
\* issues the first create request is the step in which the last answer of
\* the check arrives, so that nothing happens in between.
C5_FreshCheckBeforeSubmit ==
    /\ [](\A j \in DOMAIN log : log[j].kind = "invoke" => PrecededByFreshCheck(j))
    /\ [][ (\E j \in DOMAIN log' : j > Len(log) /\ log'[j].kind = "invoke")
              => /\ hsPc = "checking"
                 /\ pendingQueries # {}
                 /\ pendingQueries' = {}
                 /\ availabilityCheck'.available
                 /\ \E j \in DOMAIN log' :
                        /\ j > Len(log) + 1
                        /\ j < Len(log')
                        /\ log'[j].kind = "invoke"
                        /\ log'[j - 1].kind = "checked"
                        /\ log'[j + 1].kind = "call" ]_vars

C5_Witness ==
    /\ Len(log) >= 2
    /\ log[Len(log) - 1].kind = "invoke"
    /\ pc \in { "org", "person" }
    /\ Cardinality({ formData.groups[g].selectedScreeningId :
                        g \in DOMAIN formData.groups }) = 2
    /\ capacityWarnings.pending

\* The groups of the input whose screening has a number of seats that is
\* less than the group's own headcount.
OverCapacity(input) ==
    { i \in DOMAIN input :
        /\ ParseInt(Val(input[i].selectedScreeningId)) \in DOMAIN capacity
        /\ ~IsNull(capacity[ParseInt(Val(input[i].selectedScreeningId))])
        /\ Val(capacity[ParseInt(Val(input[i].selectedScreeningId))])
              < input[i].totalPeople }

ExpectedConflict(input, i) ==
    [ screeningId |-> Val(input[i].selectedScreeningId),
      available |-> Val(capacity[ParseInt(Val(input[i].selectedScreeningId))]),
      requested |-> input[i].totalPeople ]

\* C6: when every query was answered, the conflicts returned are, in the
\* order of the groups, one {screeningId, available, requested} for each
\* group whose screening has a non-null number of seats below the group's own
\* headcount and for no other group, and available holds exactly when there
\* is none; groups that share a screening are not added up and a screening
\* without a limit gives no conflict.
C6_ConflictsPerGroup ==
    (hsPc = "checked" /\ \A q \in DOMAIN log : log[q].kind # "queryFailed") =>
        LET input == CheckInput(formData.groups)
            over == OverCapacity(input)
            conflicts == availabilityCheck.conflicts
        IN  /\ availabilityCheck.available <=> over = {}
            /\ Len(conflicts) = Cardinality(over)
            /\ \E f \in [ DOMAIN conflicts -> over ] :
                /\ \A k, l \in DOMAIN conflicts : k < l => f[k] < f[l]
                /\ \A k \in DOMAIN conflicts :
                      conflicts[k] = ExpectedConflict(input, f[k])

\* Two groups share a screening of 110 seats, 110 and 50 people: neither is a
\* conflict; a third group of 110 on a screening of 50 seats is the only one.
C6_Witness ==
    /\ hsPc = "checked"
    /\ \A q \in DOMAIN log : log[q].kind # "queryFailed"
    /\ Len(formData.groups) = 3
    /\ capacity[7] = Some(110)
    /\ capacity[12] = Some(50)
    /\ formData.groups[1].selectedScreeningId = Some(<<"7">>)
    /\ formData.groups[2].selectedScreeningId = Some(<<"7">>)
    /\ formData.groups[3].selectedScreeningId = Some(<<"1", "2">>)
    /\ getTotalPeopleInGroup(formData.groups[1]) = 110
    /\ getTotalPeopleInGroup(formData.groups[2]) = 50
    /\ getTotalPeopleInGroup(formData.groups[3]) = 110
    /\ Len(availabilityCheck.conflicts) = 1
    /\ availabilityCheck.conflicts[1].screeningId = <<"1", "2">>

\* C7: submitBooking is called only in states in which step 1 and step 2
\* are valid.
C7_ValidWhenInvoked ==
    (Len(log) >= 2 /\ log[Len(log) - 1].kind = "invoke")
        => (isStep1Valid /\ isStep2Valid)

\* C11: at the moment an invocation of submitBooking returns its result, none
\* of the link requests it issued is still on the wire.
C11_LinksSettledAtReturn ==
    (Len(log) > 0 /\ log[Len(log)].kind = "return") =>
        \A req \in requests :
            ~(req.inv = log[Len(log)].inv /\ req.class = Link)

\* C12: an invocation issues at most one Aanmelding request; its Docent is
\* the id the Person request of the invocation was answered with, its School
\* the id the Organisation request was answered with when there was one, and
\* else the School of the form's aanmeldingData (the lookup id).
C12_OneBookingWithReferences ==
    \A j \in DOMAIN log :
        IsCall(log[j], Aanmelding) =>
            /\ CallsOf(log[j].inv, Aanmelding) = {j}
            /\ \E i \in Earlier(j, log[j].inv) :
                /\ IsCreated(log[i], Person)
                /\ log[j].data.Docent = Some(ParseInt(log[i].key))
                /\ \E r \in RecordsOf(log[j].inv, Person) :
                       NumToString(r.id) = log[i].key
            /\ \A i \in Earlier(j, log[j].inv) :
                IsCreated(log[i], Organisation) =>
                    log[j].data.School = Some(ParseInt(log[i].key))
            /\ (CallsOf(log[j].inv, Organisation) = {} /\ log[j].inv = attempt) =>
                    log[j].data.School = formData.aanmeldingData.School

C12_Witness ==
    /\ \E j \in DOMAIN log :
        /\ IsCall(log[j], Aanmelding)
        /\ \E i \in Earlier(j, log[j].inv) : IsCreated(log[i], Organisation)
        /\ ~IsNull(formData.aanmeldingData.School)
        /\ log[j].data.School # formData.aanmeldingData.School
    /\ pc = "done"

\* ---------------------------------------------------- the claims of step 1
\* A restricted category: education type 3, 14, 24 or 29.
Restricted(g) ==
    \E k \in DOMAIN g.educationTypeIds : g.educationTypeIds[k] \in {3, 14, 24, 29}

HeadCount(g) == g.Aantal_leerlingen_studenten + g.Aantal_begeleiders

Justified(g) == Restricted(g) => g.Toelichting # ""

\* What isStep1Valid asks of a group besides the justification.
OtherStep1Conditions(g) ==
    /\ g.Aantal_leerlingen_studenten >= 1
    /\ g.Aantal_begeleiders >= 1
    /\ Len(g.educationTypeIds) >= 1
    /\ g.stad # ""
    /\ ~IsNull(g.selectedScreeningId)
    /\ HeadCount(g) <= 340

C15_SupervisorsFromZero ==
    isStep1Valid <=>
        \A i \in DOMAIN groups :
            /\ groups[i].Aantal_leerlingen_studenten >= 1
            /\ groups[i].Aantal_begeleiders >= 0
            /\ Len(groups[i].educationTypeIds) >= 1
            /\ groups[i].stad # ""
            /\ ~IsNull(groups[i].selectedScreeningId)
            /\ HeadCount(groups[i]) <= 340
            /\ Justified(groups[i])

\* C16: a call of goToNextStep takes currentStep from 1 to 2 exactly when
\* currentStep is 1 and isStep1Valid holds, and else leaves it; a call of
\* goToPreviousStep takes it from 2 to 1 and else leaves it; neither changes
\* anything else of the store.
C16_StepChanges ==
    [][ (log = <<>> /\ log' # <<>>) =>
          /\ log'[1].kind = "goToNextStep" =>
                /\ currentStep' =
                      (IF currentStep = 1 /\ isStep1Valid THEN 2 ELSE currentStep)
                /\ UNCHANGED <<groups, teacher, school, fields>>
          /\ log'[1].kind = "goToPreviousStep" =>
                /\ currentStep' = (IF currentStep = 2 THEN 1 ELSE currentStep)
                /\ UNCHANGED <<groups, teacher, school, fields>> ]_vars

C16_Witness ==
    /\ log # <<>>
    /\ log[1].kind = "goToNextStep"
    /\ currentStep = 1
    /\ \E i \in DOMAIN groups :
          Restricted(groups[i]) /\ groups[i].Toelichting = ""

\* ---------------------------------------------------- the claims of step 2
\* The billing address text is required and missing: it is empty while the
\* source is "different", the school is entered by hand, or the chosen school
\* has no known billing address.
BillingAddressMissing ==
    /\ school.Factuuradres = ""
    /\ \/ school.Factuuradres_keuze = "1"
       \/ school.School_staat_niet_in_lijst
       \/ ~school.bekendFactuuradres

\* C17: whenever the billing address is required and missing, isStep2Valid is
\* false, and so the confirmation is not reached from step 2.
C17_BillingAddressRequired ==
    /\ BillingAddressMissing => ~isStep2Valid
    /\ route = "bevestiging" => ~BillingAddressMissing

\* An address of the pattern: no blank, one @ with text before it, and after
\* it text, a dot and text.
WellFormed(email) ==
    \E i, j \in DOMAIN email :
        /\ 1 < i /\ i + 1 < j /\ j < Len(email)
        /\ email[i] = "@" /\ email[j] = "."
        /\ \A k \in DOMAIN email : email[k] # " " /\ (email[k] = "@" => k = i)

\* C18: isStep2Valid holds only if the teacher's last name, work e-mail and
\* mobile phone are non-empty and the work e-mail is well-formed, the school
\* is resolved (an existing school chosen, or entered by hand with a name and
\* a type), both consents are given, the CJP number is non-empty when
\* Betalen_met_CJP is set, and the billing e-mail is empty or well-formed;
\* the confirmation is reached from step 2 only in such a state.
C18_Step2Requirements ==
    (isStep2Valid \/ route = "bevestiging") =>
        /\ teacher.Last_name # ""
        /\ teacher.Email_work # <<>>
        /\ teacher.Mobile_phone # ""
        /\ WellFormed(teacher.Email_work)
        /\ \/ ~IsNull(school.lookupId)
           \/ /\ school.School_staat_niet_in_lijst
              /\ school.schoolName # ""
              /\ ~IsNull(school.schoolType)
        /\ fields.Akkoord_privacyverklaring
        /\ fields.Akkoord_algemene_voorwaarden
        /\ fields.Betalen_met_CJP => fields.CJP_nummer # ""
        /\ \/ school.E_mailadres_voor_factuur = <<>>
           \/ WellFormed(school.E_mailadres_voor_factuur)

C18_Witness ==
    /\ route = "bevestiging"
    /\ school.School_staat_niet_in_lijst
    /\ fields.Betalen_met_CJP
    /\ school.E_mailadres_voor_factuur # <<>>

\* C20: with the billing address source "0" (same as the school)
\* prepareAanmeldingData emits Factuuradres = null, also when the store still
\* holds an address text; the text is emitted only with the source "1".
C20_BillingAddressNulled ==
    /\ school.Factuuradres_keuze = "0" =>
          IsNull(prepareAanmeldingData.Factuuradres)
    /\ ~IsNull(prepareAanmeldingData.Factuuradres) =>
          /\ school.Factuuradres_keuze = "1"
          /\ prepareAanmeldingData.Factuuradres = Some(school.Factuuradres)

C20_Witness ==
    /\ school.Factuuradres_keuze = "0"
    /\ school.Factuuradres = "Straat 1"
    /\ route = "bevestiging"
    /\ IsNull(prepareAanmeldingData.Factuuradres)

\* ------------------------------------------- the claim of the school reference
\* The Aanmelding request at position j of the log carries the existing
\* school: the lookup id of the form as School, no manual entry, and no
\* Organisation was made for it.
ExistingSchoolPath(j) ==
    /\ ~log[j].data.School_staat_niet_in_lijst
    /\ IsNull(log[j].data.School_invul)
    /\ ~IsNull(log[j].data.School)
    /\ log[j].data.School = formData.aanmeldingData.School
    /\ CallsOf(log[j].inv, Organisation) = {}

\* It carries a school entered by hand: the manual entry with its text, no
\* lookup id, and as School the id of the Organisation made for it.
ManualSchoolPath(j) ==
    /\ log[j].data.School_staat_niet_in_lijst
    /\ ~IsNull(log[j].data.School_invul)
    /\ IsNull(formData.aanmeldingData.School)
    /\ \E i \in Earlier(j, log[j].inv) :
        /\ IsCreated(log[i], Organisation)
        /\ log[j].data.School = Some(ParseInt(log[i].key))

\* C19: the Aanmelding payload sent to the backend never carries both an
\* existing school and a manual entry; exactly one of the two paths gives its
\* School reference, and an Organisation is made only on the manual path.
C19_OneSchoolResolution ==
    \A j \in DOMAIN log :
        /\ (IsCall(log[j], Aanmelding) /\ log[j].inv = attempt) =>
              /\ ~(/\ log[j].data.School_staat_niet_in_lijst
                   /\ ~IsNull(formData.aanmeldingData.School))
              /\ ExistingSchoolPath(j) # ManualSchoolPath(j)
        /\ (IsCall(log[j], Organisation) /\ log[j].inv = attempt) =>
              formData.aanmeldingData.School_staat_niet_in_lijst

\* ------------------------------------------- the group list and the group form
\* removeGroup without the refill of an emptied list.
removeGroupBare(groupId) ==
    SelectSeq(groups, LAMBDA g : g.id # groupId)

\* removeGroup: the groups of another id; an emptied list gets a copy of the
\* initial group.
removeGroup(groupId) ==
    LET rest == SelectSeq(groups, LAMBDA g : g.id # groupId)
    IN IF Len(rest) = 0 THEN <<initialGroup>> ELSE rest

\* handleFieldChange of a group form: the field, and with the city or the
\* education types also an emptied screening, go to updateGroup.
handleFieldChange(groupId, field, value) ==
    updateGroup(groupId,
        IF field \in { "stad", "educationTypeIds" }
        THEN [ f \in { field, "selectedScreeningId" } |->
                 IF f = field THEN value ELSE Null ]
        ELSE [ f \in { field } |-> value ])

\* handleEducationTypeToggle of a group form: the type leaves the ids and the
\* names when it is among them and joins them at the end when it is not.
handleEducationTypeToggle(group, typeId, typeName) ==
    LET currentIds == group.educationTypeIds
        currentNames == group.educationTypeNames
        included == \E k \in DOMAIN currentIds : currentIds[k] = typeId
        newIds == IF included
                  THEN SelectSeq(currentIds, LAMBDA id : id # typeId)
                  ELSE Append(currentIds, typeId)
        newNames == IF included
                    THEN SelectSeq(currentNames, LAMBDA name : name # typeName)
                    ELSE Append(currentNames, typeName)
    IN updateGroup(group.id, [ educationTypeIds |-> newIds,
                               educationTypeNames |-> newNames ])

\* The ids removeGroup is called with: those a group can have.
GroupIds == { "group1", "group2", "group3", "group4" }

\* The education types and cities the form offers here.
EducationTypes == { [ Id |-> 3, Type |-> "MBO" ] }
Cities == { "", "Amsterdam" }

InitGroups ==
    /\ Init
    /\ capacity = [ id \in ScreeningIds |-> Null ]

AddGroupCalled ==
    /\ groups' = addGroup
    /\ log' = <<[ kind |-> "addGroup", before |-> Len(groups),
                  present |-> TRUE ]>>
    /\ UNCHANGED <<currentStep, teacher, school, fields, pageVars, runVars,
                   backendVars, attempt>>

RemoveGroupCalled ==
    /\ \E groupId \in GroupIds :
        /\ groups' = removeGroup(groupId)
        /\ log' = <<[ kind |-> "removeGroup", before |-> Len(groups),
                      present |-> \E i \in DOMAIN groups :
                                      groups[i].id = groupId ]>>
    /\ UNCHANGED <<currentStep, teacher, school, fields, pageVars, runVars,
                   backendVars, attempt>>

ResetFormCalled ==
    /\ resetForm
    /\ log' = <<[ kind |-> "resetForm", before |-> Len(groups),
                  present |-> TRUE ]>>
    /\ UNCHANGED <<pageVars, runVars, backendVars, attempt>>

\* The city select of a group form.
CitySelected ==
    /\ \E i \in DOMAIN groups, stad \in Cities :
          groups' = handleFieldChange(groups[i].id, "stad", stad)
    /\ log' = <<[ kind |-> "updateGroup", before |-> Len(groups),
                  present |-> TRUE ]>>
    /\ UNCHANGED <<currentStep, teacher, school, fields, pageVars, runVars,
                   backendVars, attempt>>

\* A checkbox of the education types of a group form.
EducationTypeToggled ==
    /\ \E i \in DOMAIN groups, type \in EducationTypes :
          groups' = handleEducationTypeToggle(groups[i], type.Id, type.Type)
    /\ log' = <<[ kind |-> "updateGroup", before |-> Len(groups),
                  present |-> TRUE ]>>
    /\ UNCHANGED <<currentStep, teacher, school, fields, pageVars, runVars,
                   backendVars, attempt>>

\* A click on a screening of the list a group form loaded for its city.
ScreeningClicked ==
    /\ \E i \in DOMAIN groups :
        /\ groups[i].stad # ""
        /\ groups' = handleFieldChange(groups[i].id, "selectedScreeningId",
                                       Some(<<"7">>))
    /\ log' = <<[ kind |-> "updateGroup", before |-> Len(groups),
                  present |-> TRUE ]>>
    /\ UNCHANGED <<currentStep, teacher, school, fields, pageVars, runVars,
                   backendVars, attempt>>

NextGroups ==
    \/ AddGroupCalled
    \/ RemoveGroupCalled
    \/ ResetFormCalled
    \/ CitySelected
    \/ EducationTypeToggled
    \/ ScreeningClicked

SpecGroups == InitGroups /\ [][NextGroups]_vars

\* C21: after any sequence of addGroup, removeGroup, updateGroup and resetForm
\* calls the list holds one to three groups; addGroup on three groups changes
\* nothing, and removing the only group leaves the one initial group.
C21_GroupCount ==
    /\ [](Len(groups) >= 1 /\ Len(groups) <= MAX_GROUPS)
    /\ [][/\ (log'[1].kind = "addGroup" /\ Len(groups) = MAX_GROUPS) =>
                groups' = groups
          /\ (log'[1].kind = "removeGroup" /\ Len(groups) = 1
                 /\ log'[1].present) =>
                groups' = <<initialGroup>>]_vars

\* The only group, filled in, was removed.
C21_Witness ==
    /\ log = <<[ kind |-> "removeGroup", before |-> 1, present |-> TRUE ]>>
    /\ groups = <<initialGroup>>

\* C27: a step that changes the city or the education types of a group
\* leaves that group without a selected screening.
C27_ScreeningCleared ==
    [][\A i \in DOMAIN groups :
          (/\ i \in DOMAIN groups'
           /\ groups'[i].id = groups[i].id
           /\ \/ groups'[i].stad # groups[i].stad
              \/ groups'[i].educationTypeIds # groups[i].educationTypeIds) =>
             IsNull(groups'[i].selectedScreeningId)]_vars

\* A call of handleNext happens in this step.
HandleNextStep == log = <<>> /\ log' # <<>> /\ log'[1].kind = "handleNext"

InvalidFields(group) ==
    { f \in { "Aantal_leerlingen_studenten", "educationTypeIds",
              "Aantal_begeleiders", "stad", "selectedScreeningId",
              "Toelichting" } :
        \/ f = "Aantal_leerlingen_studenten"
              /\ \/ group.Aantal_leerlingen_studenten <= 0
                 \/ getTotalPeopleInGroup(group) > MAX_GROUP_SIZE
        \/ f = "educationTypeIds" /\ Len(group.educationTypeIds) = 0
        \/ f = "Aantal_begeleiders"
              /\ \/ group.Aantal_begeleiders <= 0
                 \/ getTotalPeopleInGroup(group) > MAX_GROUP_SIZE
        \/ f = "stad" /\ group.stad = ""
        \/ f = "selectedScreeningId" /\ IsNull(group.selectedScreeningId)
        \/ f = "Toelichting" /\ NeedsToelichting(group) /\ group.Toelichting = "" }

\* The group form of group i shows an error under the field.
ShowsError(errors, i, f) ==
    f \in DOMAIN errors[i] /\ errors[i][f] # <<>>

\* C25: when handleNext does not advance, every group form shows an error
\* under each of its invalid fields, and when isStep1Valid is false at least
\* one error is shown.
C25_BlockedShowsErrors ==
    [][(HandleNextStep /\ currentStep' = currentStep) =>
          /\ \A i \in DOMAIN groups : \A f \in InvalidFields(groups[i]) :
                ShowsError(log'[1].fieldErrors, i, f)
          /\ ~isStep1Valid =>
                \E i \in DOMAIN groups :
                    \E f \in DOMAIN log'[1].fieldErrors[i] :
                        ShowsError(log'[1].fieldErrors, i, f)]_vars

\* A blocked handleNext on two groups, the second one as the form made it,
\* showed errors in both group forms.
C25_Witness ==
    /\ log # <<>>
    /\ log[1].kind = "handleNext"
    /\ currentStep = 1
    /\ Len(groups) = 2
    /\ groups[1].Aantal_begeleiders = 0
    /\ groups[2] = [ initialGroup EXCEPT !.id = "group2" ]
    /\ \A i \in DOMAIN groups :
          \E f \in DOMAIN log[1].fieldErrors[i] :
              ShowsError(log[1].fieldErrors, i, f)

\* The link rejections of invocation a in the order they were observed.
LinkRejectionsOf(a) ==
    { i \in DOMAIN log : log[i].inv = a /\ IsRejected(log[i], Link) }

\* C24: an invocation that returns after a link request failed returns Failed
\* with the ordinal (from 1) of the group whose link request was the first
\* seen to fail and the backend's message; the Aanmelding of the invocation
\* and every link the backend created stay in the backend.
C24_LinkFailureAttributed ==
    \A j \in DOMAIN log :
        (log[j].kind = "return"
            /\ \E i \in LinkRejectionsOf(log[j].inv) : i < j) =>
           /\ \E i \in LinkRejectionsOf(log[j].inv) :
                /\ \A k \in LinkRejectionsOf(log[j].inv) : i <= k
                /\ log[i].index \in 1..MAX_GROUPS
                /\ log[j].inv = attempt =>
                      \E c \in CallsOf(attempt, Link), b \in DOMAIN log :
                          /\ IsCreated(log[b], Aanmelding)
                          /\ log[b].inv = attempt
                          /\ log[c].index = log[i].index
                          /\ log[c].data =
                                linkData(log[b].key,
                                         formData.groups[log[i].index])
                /\ log[j].result =
                      Failed(<<"Koppeling met filmvertoning ">>
                               \o NumToString(log[i].index)
                               \o <<" mislukt: ">> \o log[i].err)
           /\ RecordsOf(log[j].inv, Aanmelding) # {}
           /\ \A k \in DOMAIN log :
                (IsCreated(log[k], Link) /\ log[k].inv = log[j].inv) =>
                    \E r \in RecordsOf(log[j].inv, Link) :
                        r.index = log[k].index /\ NumToString(r.id) = log[k].key

\* The link of the second group failed first; the invocation returned Failed
\* and the link of the first group is in the backend.
C24_Witness ==
    /\ pc = "done"
    /\ result.state = "Failed"
    /\ \E i \in LinkRejectionsOf(attempt) :
          /\ log[i].index = 2
          /\ \A k \in LinkRejectionsOf(attempt) : i <= k
    /\ \E r \in RecordsOf(attempt, Link) : r.index = 1

\* The events of a check of invocation a before position j.
QueryFailuresBefore(j) ==
    { i \in Earlier(j, log[j].inv) : log[i].kind = "queryFailed" }

\* The screenings the queries of the invocation returned before position j.
ReturnedBefore(j) ==
    UNION { log[i].screenings :
              i \in { k \in Earlier(j, log[j].inv) : log[k].kind = "query" } }

\* C28: checkSeatAvailability returns in every case: after a failed query
\* with available = false and no conflict, which blocks the submission (Failed
\* is returned and no record is requested); after answered queries without a
\* conflict for a group whose screening no query returned.
C28_CheckNeverThrows ==
    \A j \in DOMAIN log :
        log[j].kind = "checked" =>
            /\ QueryFailuresBefore(j) # {} =>
                /\ log[j].check = [ available |-> FALSE, conflicts |-> <<>> ]
                /\ hsPc # "checked" =>
                    /\ j < Len(log)
                    /\ log[j + 1].kind = "return"
                    /\ log[j + 1].result.state = "Failed"
                    /\ \A k \in Later(j, log[j].inv) : log[k].kind = "return"
            /\ QueryFailuresBefore(j) = {} =>
                \A c \in DOMAIN log[j].check.conflicts :
                    \E s \in ReturnedBefore(j) :
                        NumToString(s.id) = log[j].check.conflicts[c].screeningId

\* A run of handleSubmit was blocked by a failed query.
C28_WitnessFailed ==
    \E j \in DOMAIN log :
        /\ log[j].kind = "checked"
        /\ QueryFailuresBefore(j) # {}
        /\ hsPc = "idle"
        /\ submitResult.state = "Failed"

\* A check went through with a group whose screening no query returned.
C28_WitnessMissing ==
    \E j \in DOMAIN log :
        /\ log[j].kind = "checked"
        /\ QueryFailuresBefore(j) = {}
        /\ \E i \in Earlier(j, log[j].inv) :
              log[i].kind = "query" /\ log[i].screenings = {}

\* ------------------------------------------- the billing address of a school
\* The fetches of a billing address that may be in flight at a time.
MaxFetches == 3

\* The schools the search offers, and the billing address (Type 6) the
\* backend has for each: school 5 has one, school 6 has none.
BillingOptions ==
    { Some([ id |-> 5, Name |-> "Het Lyceum" ]),
      Some([ id |-> 6, Name |-> "De Brug" ]) }

AddressOf(schoolId) ==
    IF schoolId = 5
    THEN Some([ Street |-> "Laan", Number |-> "2", Addition |-> "",
                Postcode |-> "1011 AB", City |-> "Amsterdam" ])
    ELSE Null

\* parts.join(' ')
RECURSIVE Join(_)
Join(parts) ==
    IF Len(parts) = 0 THEN ""
    ELSE IF Len(parts) = 1 THEN parts[1]
    ELSE parts[1] \o " " \o Join(Tail(parts))

\* formatAddress: the parts that are not empty, a blank between them.
formatAddress(address) ==
    Join(SelectSeq(<<address.Street, address.Number, address.Addition,
                     address.Postcode, address.City>>,
                   LAMBDA part : part # ""))

\* The effect on school.lookupId: a changed lookup id that is not null sends
\* getFactuurAddress for it; nothing withdraws a fetch sent before.
loadFactuurAddress(before, after) ==
    IF after # before /\ ~IsNull(after)
    THEN { [ kind |-> "getFactuurAddress", organisationId |-> Val(after),
             n |-> CHOOSE k \in 1..MaxFetches :
                       /\ \A req \in requests : req.n # k
                       /\ \A j \in 1..(k - 1) : \E req \in requests : req.n = j ] }
    ELSE {}

\* What the effect stores when no address came back, or the fetch failed.
NoFactuurAddress ==
    [ bekendFactuuradres |-> FALSE,
      existingFactuuradres |-> "",
      Factuuradres_keuze |-> "1" ]

AddressEvent(req, outcome) ==
    [ kind |-> "address", organisationId |-> req.organisationId,
      outcome |-> outcome ]

InitBilling ==
    /\ InitStep2
    /\ teacher = initialTeacher
    /\ school = initialSchool
    /\ fields = initialFields

\* A school is chosen in the search select, or the choice is cleared; the
\* select is disabled while the school is entered by hand.
SchoolOptionChosen ==
    /\ ~school.School_staat_niet_in_lijst
    /\ \E selectedOption \in BillingOptions \cup { Null } :
        /\ IsNull(selectedOption) \/ Cardinality(requests) < MaxFetches
        /\ school' = handleSchoolSelect(selectedOption)
        /\ requests' = requests \cup
              loadFactuurAddress(school.lookupId, school'.lookupId)
    /\ UNCHANGED <<currentStep, groups, teacher, fields, pageVars, runVars,
                   records, nextId, capacity, log, attempt>>

\* The checkbox 'school staat niet in de lijst'; it leaves no lookup id to
\* fetch for.
ManualToggled ==
    /\ school' = handleManualSchoolToggle(~school.School_staat_niet_in_lijst)
    /\ requests' = requests \cup
          loadFactuurAddress(school.lookupId, school'.lookupId)
    /\ UNCHANGED <<currentStep, groups, teacher, fields, pageVars, runVars,
                   records, nextId, capacity, log, attempt>>

\* getFactuurAddress is answered: with the first address of the school, or
\* with none.
FactuurAddressLoaded ==
    \E req \in requests :
        LET address == AddressOf(req.organisationId)
        IN /\ IF ~IsNull(address)
              THEN /\ school' = updateSchool(
                          [ bekendFactuuradres |-> TRUE,
                            existingFactuuradres |-> formatAddress(Val(address)) ])
                   /\ log' = <<AddressEvent(req, "found")>>
              ELSE /\ school' = updateSchool(NoFactuurAddress)
                   /\ log' = <<AddressEvent(req, "none")>>
           /\ requests' = requests \ { req }
           /\ UNCHANGED <<currentStep, groups, teacher, fields, pageVars,
                          runVars, records, nextId, capacity, attempt>>

\* getFactuurAddress fails.
FactuurAddressFailed ==
    \E req \in requests :
        /\ school' = updateSchool(NoFactuurAddress)
        /\ log' = <<AddressEvent(req, "error")>>
        /\ requests' = requests \ { req }
        /\ UNCHANGED <<currentStep, groups, teacher, fields, pageVars,
                       runVars, records, nextId, capacity, attempt>>

NextBilling ==
    \/ SchoolOptionChosen
    \/ ManualToggled
    \/ FactuuradresKeuzeChanged
    \/ FactuurAddressLoaded
    \/ FactuurAddressFailed

SpecBilling == InitBilling /\ [][NextBilling]_vars

\* A fetch of a billing address is answered in this step.
AddressSettles == Cardinality(requests') < Cardinality(requests)

\* No fetch for the chosen school is in flight.
SettledForChosen ==
    /\ ~IsNull(school.lookupId)
    /\ \A req \in requests : req.organisationId # Val(school.lookupId)

\* C26: a fetch that ends without an address, or fails, sets the billing
\* source to '1' and bekendFactuuradres to false; once the fetch for the
\* chosen school has settled, source '0' goes with a known billing address of
\* that school.
C26_NoAddressForcesOther ==
    /\ [][(AddressSettles /\ log'[1].outcome \in { "none", "error" }) =>
             /\ school'.Factuuradres_keuze = "1"
             /\ ~school'.bekendFactuuradres]_vars
    /\ []((SettledForChosen /\ school.Factuuradres_keuze = "0") =>
             ~IsNull(AddressOf(Val(school.lookupId))))

\* C30: once no fetch is in flight, bekendFactuuradres and
\* existingFactuuradres are those of the chosen school, and false and empty
\* when no school is chosen.
C30_AddressOfChosenSchool ==
    requests = {} =>
        IF IsNull(school.lookupId)
        THEN ~school.bekendFactuuradres /\ school.existingFactuuradres = ""
        ELSE \/ /\ school.bekendFactuuradres
                /\ ~IsNull(AddressOf(Val(school.lookupId)))
                /\ school.existingFactuuradres =
                      formatAddress(Val(AddressOf(Val(school.lookupId))))
             \/ /\ ~school.bekendFactuuradres
                /\ school.existingFactuuradres = ""

\* --------------------------------------- handleSubmit and its retry on their own
\* A form that passed step 2, on the confirmation page with its screenings
\* loaded: one or two groups, a school entered by hand or chosen from the
\* list, screenings with room for every group or screening 7 with 20 seats.
RunTeacher ==
    [ initialTeacher EXCEPT !.First_name = "Anna", !.Last_name = "Jansen",
                            !.Email_work = <<"a", "@", "b", ".", "n", "l">>,
                            !.Mobile_phone = "0612345678" ]

RunSchools ==
    { [ initialSchool EXCEPT !.School_staat_niet_in_lijst = TRUE,
                             !.schoolName = "Nieuwe school",
                             !.schoolType = Some(19),
                             !.Factuuradres_keuze = "1",
                             !.Factuuradres = "Straat 1" ],
      [ initialSchool EXCEPT !.lookupId = Some(5),
                             !.selectedSchoolName = "Het Lyceum",
                             !.Factuuradres_keuze = "1",
                             !.Factuuradres = "Straat 1" ] }

RunGroups ==
    { <<sampleGroup>>,
      <<sampleGroup,
        [ sampleGroup EXCEPT !.id = "group2",
                             !.selectedScreeningId = Some(<<"1", "2">>) ]>> }

InitRun ==
    /\ currentStep = 2
    /\ groups \in RunGroups
    /\ teacher = RunTeacher
    /\ school \in RunSchools
    /\ fields = [ initialFields EXCEPT !.Akkoord_privacyverklaring = TRUE,
                                       !.Akkoord_algemene_voorwaarden = TRUE ]
    /\ route = "bevestiging"
    /\ isSubmitting = FALSE
    /\ submitResult = NoResult
    /\ capacityWarnings = [ pending |-> FALSE, warnings |-> <<>> ]
    /\ hsPc = "idle"
    /\ formData = noFormData
    /\ pendingQueries = {}
    /\ screeningResults = {}
    /\ availabilityCheck = [ available |-> TRUE, conflicts |-> <<>> ]
    /\ pc = "start"
    /\ organisationId = Null
    /\ personId = <<>>
    /\ bookingId = <<>>
    /\ linkStatus = <<>>
    /\ result = NoResult
    /\ records = {}
    /\ nextId = FirstId
    /\ capacity \in { [ id \in ScreeningIds |-> Null ],
                      [ id \in ScreeningIds |->
                          IF id = 7 THEN Some(20) ELSE Null ] }
    /\ requests = {}
    /\ log = <<>>
    /\ attempt = 0

\* The submit button, once more than in the page flow: the retry.
RetrySubmit == HandleSubmitWithin(MaxAttempts + 1)

\* An answer of the backend reaches the page.
Settle ==
    \/ QueryResolved
    \/ QueryRejected
    \/ OrganisationCreated
    \/ OrganisationRejected
    \/ PersonCreated
    \/ PersonRejected
    \/ AanmeldingCreated
    \/ AanmeldingRejected
    \/ LinkCreated
    \/ LinkRejected

NextRun ==
    \/ RetrySubmit
    \/ RetryClicked
    \/ QueryResolved
    \/ QueryRejected
    \/ OrganisationCreated
    \/ OrganisationRejected
    \/ PersonCreated
    \/ PersonRejected
    \/ AanmeldingCreated
    \/ AanmeldingRejected
    \/ LinkCreated
    \/ LinkRejected

SpecRun == InitRun /\ [][NextRun]_vars

\* Every request to the backend is answered in the end.
SpecRunFair == SpecRun /\ WF_vars(Settle)

SubmittedData ==
    [ personData |-> preparePersonData,
      organisationData |-> prepareOrganisationData,
      aanmeldingData |-> prepareAanmeldingData,
      groups |-> groups ]

\* C29: a failed submission leaves the store as it was submitted, and every
\* invocation of submitBooking, a retry included, starts with the Organisation
\* request when a school was entered by hand and sends the Person request
\* with the teacher of the form, whatever earlier invocations created.
C29_RetryStartsOver ==
    /\ attempt > 0 => formData = SubmittedData
    /\ \A j \in DOMAIN log :
        /\ log[j].kind = "invoke" =>
            /\ j < Len(log)
            /\ log[j + 1].inv = log[j].inv
            /\ IF ~IsNull(SubmittedData.organisationData)
               THEN /\ IsCall(log[j + 1], Organisation)
                    /\ log[j + 1].data = Val(SubmittedData.organisationData)
               ELSE /\ IsCall(log[j + 1], Person)
                    /\ log[j + 1].data = SubmittedData.personData
        /\ IsCreated(log[j], Organisation) =>
            /\ j < Len(log)
            /\ log[j + 1].inv = log[j].inv
            /\ IsCall(log[j + 1], Person)
            /\ log[j + 1].data = SubmittedData.personData

\* The retry asked for an Organisation and a Person although the failed
\* attempt had created both.
C29_Witness ==
    /\ attempt = 2
    /\ RecordsOf(1, Organisation) # {}
    /\ RecordsOf(1, Person) # {}
    /\ \E j \in ReturnsOf(1) : log[j].result.state = "Failed"
    /\ CallsOf(2, Organisation) # {}
    /\ CallsOf(2, Person) # {}

====
